---- MODULE Spec2Model ----
(***************************************************************************)
(* State-machine model of the ruffle core: the AVM2 activation frame and   *)
(* its interpreter loop (core/src/avm2/activation.rs, names.rs) and the    *)
(* AVM1 MovieClip built-ins (core/src/avm1/globals/movie_clip.rs).         *)
(*                                                                         *)
(* One activation is modelled.  The bytecode of the method body is not     *)
(* fixed: every step of the interpreter loop draws the next instruction    *)
(* from the modelled instruction set, so the behaviours of the model are   *)
(* the executions of every method body over those instructions.            *)
(***************************************************************************)
EXTENDS Integers, Sequences, FiniteSets, TLC

(***************************************************************************)
(* Bounds of the model.                                                    *)
(***************************************************************************)
MaxStackLen == 3        \* pushes are explored up to this operand stack depth
MaxDeclaredStack == 2   \* largest max_stack a modelled method body declares
MaxLocals == 1          \* largest num_locals of a modelled method body
MaxParams == 2          \* largest number of declared parameters
MaxReaders == 2         \* nested run_actions calls explored on one frame
MaxScopeNodes == 3      \* scope cells allocated in one behaviour
MaxExtraScope == 1      \* max_scope_depth - init_scope_depth of a body
MaxChildren == 2        \* children a clip holds when a built-in adds one
MaxArrayLen == 2        \* length of an array passed to beginGradientFill
MaxFrames == 3          \* total_frames of a clip
MaxQueue == 1           \* gotos a clip has queued when a script adds one
MaxWidthExcess == 45    \* pixels a line width is below 0 or above 255
MaxDateArgs == 2        \* arguments of a call of a Date setter
MaxStreamLen == 6       \* bytes of a stream of actions
MaxNodeChildren == 5    \* children of an XML node

(***************************************************************************)
(* Values (avm2::value::Value).  Every value is a record of one shape so   *)
(* that any two values can be compared.                                    *)
(***************************************************************************)
Undefined == [t |-> "undefined", v |-> 0]
Null == [t |-> "null", v |-> 0]
Bool(b) == [t |-> "bool", v |-> IF b THEN 1 ELSE 0]
Number(n) == [t |-> "number", v |-> n]
ObjectValue(o) == [t |-> "object", v |-> o]
\* The number 4294967295 (u32::MAX), and every greater number as far as a
\* cast to u32 goes: no integer of the model checker holds it.
NumberU32Max == [t |-> "number_u32max", v |-> 0]

\* Value::as_object: Ok for an object, Err for every other value.
is_object(val) == val.t = "object"

(***************************************************************************)
(* The heap objects of the model.  Object 1 is the global object.          *)
(*   traits   names declared by the object's class                         *)
(*   dynamic  whether the class is dynamic (not sealed)                    *)
(***************************************************************************)
Global == 1
Sealed == 2
Dyn == 3
Closure == 4
ObjectIds == {Global, Sealed, Dyn, Closure}

PublicNs == "public"
PrivateNs == "private"
QName(ns, name) == <<ns, name>>
\* QName::dynamic_name: the name in the public namespace
dynamic_name(local_part) == QName(PublicNs, local_part)

VARIABLES
    act_state,        \* "none", "ready", "running", "finished", "panic"
    entry,            \* how the activation was constructed (its inputs)
    body,             \* the fields of the method body being run
    is_executing,     \* Activation::is_executing
    readers,          \* run_actions loops in progress on the frame
    result,           \* what the last run_actions to end returned
    stack,            \* Avm2::stack, the operand stack
    local_registers,  \* Activation::local_registers, register i at i + 1
    scope,            \* Activation::scope, a scope cell or 0 for None
    scopes,           \* the allocated scope cells, cell i at scopes[i]
    captured,         \* the scope the function object Closure closed over
    props,            \* props[o]: the properties object o holds
    last              \* the instruction or call executed last

avm2Vars == <<act_state, entry, body, is_executing, readers, result, stack,
              local_registers, scope, scopes, captured, props, last>>

\* The AVM1 movie clip the built-ins of MovieClip are called on.
VARIABLES
    children,         \* the clip's children: stored depth -> instance name
    clip_last         \* the built-in called last, its arguments and result

listVars == <<children, clip_last>>

\* The drawing state of the clip.
VARIABLES
    fill_style,       \* the fill style set by the drawing built-ins
    line_style_set,   \* the line style set by lineStyle
    draw_last         \* the drawing built-in called last and its arguments

drawVars == <<fill_style, line_style_set, draw_last>>

\* The timeline of a movie: a root clip and the clips its tags place.
VARIABLES
    timeline,         \* the movie, its clips, the root's children, the log
    goto_pc,          \* where the player is within a frame tick
    time_last         \* the goto built-in called last and its argument

timeVars == <<timeline, goto_pc, time_last>>

\* The drag target of the player, and the calls of prototype methods.
VARIABLES
    drag_object,      \* UpdateContext::drag_object, the clip being dragged
    method_last       \* the prototype method called last and its `this`

protoVars == <<drag_object, method_last>>

clipVars == <<listVars, drawVars, timeVars, protoVars>>

\* The Date object of the AVM2 globals the setters are called on.
VARIABLES
    date_time,        \* DateObject::date_time, None for an invalid Date
    date_last         \* the setter called last, its chain and its result

dateVars == <<date_time, date_last>>

\* The ID map of an XML document (AVM1, XMLIDMapObject).
VARIABLES
    idmap,            \* the base object's properties and the document's ids
    idmap_last        \* the method of the ID map called last and its result

idmapVars == <<idmap, idmap_last>>

\* A ContextMenuItem of AVM1 and the item copy() made of it.
VARIABLES
    menu_item,        \* the properties of the item
    menu_last         \* the call made last and the item it returned

menuVars == <<menu_item, menu_last>>

\* The reader of a stream of AVM1 actions (avm1::read::Reader).
VARIABLES
    reader,           \* the bytes of the stream and the reader's position
    read_last         \* the read made last, where it began, what it gave

readVars == <<reader, read_last>>

\* The iterator over the children of an XML node (XMLNode::children).
VARIABLES
    child_iter,       \* the children of the node and the iterator's ends
    iter_last         \* the call made last, its result, what was yielded

iterVars == <<child_iter, iter_last>>

\* The local variables of an AVM1 activation and the form values made of
\* them.
VARIABLES
    locals,           \* the locals of the activation: name -> value
    form_last         \* the call made last and what it returned or sent

formVars == <<locals, form_last>>

\* A button of the display list (display_object::Button).
VARIABLES
    button,           \* the state of the button, its parent, its children
    button_last       \* the event handled last and the actions it queued

buttonVars == <<button, button_last>>

\* A text field (display_object::EditText).
VARIABLES
    edit_text,        \* the text, the flags and the cache of the field
    text_last         \* the method called last and what it returned

textVars == <<edit_text, text_last>>

\* The slots of the heap objects (TObject::get_slot, set_slot).
VARIABLES
    slots             \* object -> slot index -> the value held

slotVars == <<slots>>

\* The objects of the host outside the activation and the movie clip
hostVars ==
    <<dateVars, idmapVars, menuVars, readVars, iterVars, formVars,
      buttonVars, textVars, slotVars>>
\* What an instruction that writes a slot leaves alone besides the
\* activation
notSlotVars ==
    <<clipVars, dateVars, idmapVars, menuVars, readVars, iterVars,
      formVars, buttonVars, textVars>>
notDateVars ==
    <<avm2Vars, clipVars, idmapVars, menuVars, readVars, iterVars,
      formVars, buttonVars, textVars,
      slotVars>>
notIdmapVars ==
    <<avm2Vars, clipVars, dateVars, menuVars, readVars, iterVars,
      formVars, buttonVars, textVars,
      slotVars>>
notMenuVars ==
    <<avm2Vars, clipVars, dateVars, idmapVars, readVars, iterVars,
      formVars, buttonVars, textVars,
      slotVars>>
notReadVars ==
    <<avm2Vars, clipVars, dateVars, idmapVars, menuVars, iterVars,
      formVars, buttonVars, textVars,
      slotVars>>
notIterVars ==
    <<avm2Vars, clipVars, dateVars, idmapVars, menuVars, readVars,
      formVars, buttonVars, textVars,
      slotVars>>
notFormVars ==
    <<avm2Vars, clipVars, dateVars, idmapVars, menuVars, readVars,
      iterVars, buttonVars, textVars,
      slotVars>>
notButtonVars ==
    <<avm2Vars, clipVars, dateVars, idmapVars, menuVars, readVars,
      iterVars, formVars, textVars,
      slotVars>>
notTextVars ==
    <<avm2Vars, clipVars, dateVars, idmapVars, menuVars, readVars,
      iterVars, formVars, buttonVars,
      slotVars>>
\* What a built-in of the display list leaves alone, what a drawing
\* built-in does, and what a step of the timeline does
notListVars == <<avm2Vars, drawVars, timeVars, protoVars, hostVars>>
notDrawVars == <<avm2Vars, listVars, timeVars, protoVars, hostVars>>
notTimeVars == <<avm2Vars, listVars, drawVars, protoVars, hostVars>>

(***************************************************************************)
(* Bookkeeping shared by the actions.                                      *)
(***************************************************************************)
NoEntry == [kind |-> "none", this |-> 0, args |-> <<>>, num_params |-> 0,
            num_locals |-> 0]
NoBody == [max_stack |-> 0, init_scope_depth |-> 0, max_scope_depth |-> 0]
\* captured before any function object is made; cell 0 is the empty scope
NoCapture == [cell |-> -1, chain |-> <<>>]
\* undo when the step is not a push of a scope or the pop that follows one
NoUndo == [cell |-> -1, chain |-> <<>>]
NoResult == [kind |-> "none", value |-> Undefined, msg |-> ""]
Ok(value) == [kind |-> "Ok", value |-> value, msg |-> ""]
Err(msg) == [kind |-> "Err", value |-> Undefined, msg |-> msg]

\* The record of the step being taken: the operation, how it ended, and a
\* note of the operation's own.  undo is, after a push of a scope, the scope
\* before it (the cell and the chain read from it), and after a popscope
\* that directly follows such a push, the scope before that push; it is
\* NoUndo otherwise.  locked and busy are, for a
\* call of lock or run_actions, whether the frame was locked and whether it
\* was being executed when the call was made.
Event(op, res, note, undo, locked, busy) ==
    [op |-> op, res |-> res, note |-> note, undo |-> undo,
     locked |-> locked, busy |-> busy]
Did(op, res, note) == Event(op, res, note, NoUndo, FALSE, FALSE)
DidCall(op, res) == Event(op, res, 0, NoUndo, is_executing, readers > 0)
NoLast == Event("", "", 0, NoUndo, FALSE, FALSE)

\* A scope cell (avm2::scope::Scope): the object, the parent cell, the kind.
ScopeCell(object, parent, is_with) ==
    [locals |-> object, parent |-> parent, is_with |-> is_with]

RECURSIVE ScopeDepth(_)
\* The number of cells on the chain that starts at cell sc (0 is None).
ScopeDepth(sc) == IF sc = 0 THEN 0 ELSE 1 + ScopeDepth(scopes[sc].parent)

RECURSIVE ScopeChain(_, _)
\* The chain from cell sc outward, read in the cell heap cells.
ScopeChain(cells, sc) ==
    IF sc = 0 THEN <<>>
    ELSE <<[locals |-> cells[sc].locals, is_with |-> cells[sc].is_with]>>
         \o ScopeChain(cells, cells[sc].parent)

(***************************************************************************)
(* Register sets (activation.rs, RegisterSet).                             *)
(***************************************************************************)
\* RegisterSet::new: num registers, all undefined
RegisterSet_new(num) == [i \in 1..num |-> Undefined]
\* RegisterSet::get / get_mut: whether register num exists
has_register(regs, num) == num + 1 \in DOMAIN regs

\* A faulty write_arguments: the argument is looked up at the register's
\* index, `arguments.get(1 + i)`, so every parameter gets the next argument.
write_arguments_shifted(regs, i, num_declared_arguments, arguments) ==
    [k \in DOMAIN regs |->
        IF k - 1 \in (i + 1)..num_declared_arguments
        THEN IF k \in DOMAIN arguments THEN arguments[k] ELSE Undefined
        ELSE regs[k]]

RECURSIVE write_arguments(_, _, _, _)
\* from_method's loop `for i in 0..num_declared_arguments`, from index i on
write_arguments(regs, i, num_declared_arguments, arguments) ==
    IF i >= num_declared_arguments THEN regs
    ELSE write_arguments(
             [regs EXCEPT ![1 + i + 1] =
                 IF i + 1 \in DOMAIN arguments THEN arguments[i + 1]
                 ELSE Undefined],
             i + 1, num_declared_arguments, arguments)

\* The registers from_method builds
method_registers(num_locals, num_declared_arguments, this_obj, arguments) ==
    write_arguments(
        [RegisterSet_new(num_locals + num_declared_arguments + 1) EXCEPT
            ![1] = IF this_obj = 0 THEN Null ELSE ObjectValue(this_obj)],
        0, num_declared_arguments, arguments)

\* The registers from_script builds
script_registers(num_locals, global) ==
    [RegisterSet_new(num_locals + 1) EXCEPT ![1] = ObjectValue(global)]

\* The argument lists a caller may pass: the prefixes of ArgPool
ArgPool == <<Number(1), Number(2), Null>>
ArgLists == {SubSeq(ArgPool, 1, k) : k \in 0..Len(ArgPool)}

InitProps == [o \in ObjectIds |-> {}]
\* The scope cell heap before any activation: the global scope a function
\* object of the movie has closed over.
InitScopes == <<ScopeCell(Global, 0, FALSE)>>

InitAvm2 ==
    /\ act_state = "none"
    /\ entry = NoEntry
    /\ body = NoBody
    /\ is_executing = FALSE
    /\ readers = 0
    /\ result = NoResult
    /\ stack = <<>>
    /\ local_registers = <<>>
    /\ scope = 0
    /\ scopes = InitScopes
    /\ captured = NoCapture
    /\ props = InitProps
    /\ last = NoLast

(***************************************************************************)
(* Construction of the activation.                                         *)
(***************************************************************************)
\* Activation::from_method
from_method(has_body, num_locals, num_params, max_stack, extra_scope, sc, this_obj, arguments) ==
    /\ act_state = "none"
    /\ IF ~has_body
       THEN \* "Cannot execute non-native method without body"
            /\ last' = Did("from_method", "Err", 0)
            /\ UNCHANGED <<act_state, entry, body, local_registers, scope>>
       ELSE /\ local_registers' =
                  method_registers(num_locals, num_params, this_obj, arguments)
            /\ entry' = [kind |-> "method", this |-> this_obj,
                         args |-> arguments, num_params |-> num_params,
                         num_locals |-> num_locals]
            /\ body' = [max_stack |-> max_stack,
                        init_scope_depth |-> ScopeDepth(sc),
                        max_scope_depth |-> ScopeDepth(sc) + extra_scope]
            /\ scope' = sc
            /\ act_state' = "ready"
            /\ last' = Did("from_method", "Ok", 0)
    /\ UNCHANGED <<is_executing, readers, result, stack, scopes, captured,
                   props>>

\* Activation::from_script
from_script(has_body, num_locals, max_stack, extra_scope, global) ==
    /\ act_state = "none"
    /\ Len(scopes) < MaxScopeNodes
    /\ IF ~has_body
       THEN \* "Cannot execute non-native method (for script) without body"
            /\ last' = Did("from_script", "Err", 0)
            /\ UNCHANGED <<act_state, entry, body, local_registers, scope,
                           scopes>>
       ELSE /\ scopes' = Append(scopes, ScopeCell(global, 0, FALSE))
            /\ scope' = Len(scopes) + 1
            /\ local_registers' = script_registers(num_locals, global)
            /\ entry' = [kind |-> "script", this |-> global, args |-> <<>>,
                         num_params |-> 0, num_locals |-> num_locals]
            /\ body' = [max_stack |-> max_stack, init_scope_depth |-> 1,
                        max_scope_depth |-> 1 + extra_scope]
            /\ act_state' = "ready"
            /\ last' = Did("from_script", "Ok", 0)
    /\ UNCHANGED <<is_executing, readers, result, stack, captured, props>>

\* Activation::lock
lock ==
    /\ act_state \in {"ready", "running", "finished"}
    /\ IF is_executing
       THEN /\ last' = DidCall("lock", "Err")
            /\ UNCHANGED is_executing
       ELSE /\ is_executing' = TRUE
            /\ last' = DidCall("lock", "Ok")
    /\ UNCHANGED <<act_state, entry, body, readers, result, stack,
                   local_registers, scope, scopes, captured, props>>

\* Activation::unlock_execution
unlock_execution ==
    /\ act_state \in {"ready", "running", "finished"}
    /\ is_executing' = FALSE
    /\ last' = Did("unlock_execution", "Ok", 0)
    /\ UNCHANGED <<act_state, entry, body, readers, result, stack,
                   local_registers, scope, scopes, captured, props>>

\* Activation::run_actions up to its loop: the body is looked up and a
\* reader is taken on its code.
run_actions(has_body) ==
    /\ act_state \in {"ready", "running", "finished"}
    /\ readers < MaxReaders
    /\ IF ~has_body
       THEN /\ result' = Err("Cannot execute non-native method without body")
            /\ last' = DidCall("run_actions", "Err")
            /\ UNCHANGED <<act_state, readers>>
       ELSE /\ readers' = readers + 1
            /\ act_state' = "running"
            /\ result' = NoResult
            /\ last' = DidCall("run_actions", "Begin")
    /\ UNCHANGED <<entry, body, is_executing, stack, local_registers, scope,
                   scopes, captured, props>>

(***************************************************************************)
(* The interpreter loop.  run_actions calls do_next_opcode until it        *)
(* returns a value or an error; each action below is do_next_opcode        *)
(* reading one instruction and running its handler.                        *)
(***************************************************************************)
Executing == act_state = "running" /\ readers > 0

\* Avm2::push, as every handler calls it: the value is appended
avm2_push(s, value) == Append(s, value)
\* Avm2::pop: the top of the stack, undefined when the stack is empty
avm2_top(s) == IF s = <<>> THEN Undefined ELSE s[Len(s)]
\* Avm2::pop: the stack that remains
avm2_pop(s) == IF s = <<>> THEN <<>> ELSE SubSeq(s, 1, Len(s) - 1)

\* Ok(FrameControl::Continue): the loop of run_actions goes on
Continue(op, note) ==
    /\ last' = Did(op, "Continue", note)
    /\ UNCHANGED <<act_state, readers, result>>

\* Ok(FrameControl::Return(value)): run_actions returns Ok(value)
Return(op, value) ==
    /\ readers' = readers - 1
    /\ act_state' = IF readers = 1 THEN "finished" ELSE "running"
    /\ result' = Ok(value)
    /\ last' = Did(op, "Return", 0)

\* Ok(FrameControl::Continue) of a scope instruction
ContinueScope(op, undo) ==
    /\ last' = Event(op, "Continue", 0, undo, FALSE, FALSE)
    /\ UNCHANGED <<act_state, readers, result>>

\* Err(e): run_actions returns the error
FailNote(op, msg, note) ==
    /\ readers' = readers - 1
    /\ act_state' = IF readers = 1 THEN "finished" ELSE "running"
    /\ result' = Err(msg)
    /\ last' = Did(op, "Err", note)
Fail(op, msg) == FailNote(op, msg, 0)

\* The thread panics: nothing is returned
Panic(op) ==
    /\ act_state' = "panic"
    /\ last' = Did(op, "Panic", 0)
    /\ UNCHANGED <<readers, result>>

\* reader.read_op() gives no instruction: Ok(None) or a parse error
read_op_fails(msg) ==
    /\ Executing
    /\ Fail("read_op", msg)
    /\ UNCHANGED <<entry, body, is_executing, stack, local_registers, scope,
                   scopes, captured, props>>

\* Activation::unknown_op: an instruction with no handler
unknown_op ==
    /\ Executing
    /\ Fail("unknown_op", "Unknown op")
    /\ UNCHANGED <<entry, body, is_executing, stack, local_registers, scope,
                   scopes, captured, props>>

\* Activation::op_push_null
op_push_null ==
    /\ Executing
    /\ Len(stack) < MaxStackLen
    /\ stack' = avm2_push(stack, Null)
    /\ Continue("pushnull", 0)
    /\ UNCHANGED <<entry, body, is_executing, local_registers, scope, scopes,
                   captured, props>>

\* Activation::op_push_undefined
op_push_undefined ==
    /\ Executing
    /\ Len(stack) < MaxStackLen
    /\ stack' = avm2_push(stack, Undefined)
    /\ Continue("pushundefined", 0)
    /\ UNCHANGED <<entry, body, is_executing, local_registers, scope, scopes,
                   captured, props>>

\* Activation::op_pop
op_pop ==
    /\ Executing
    /\ stack' = avm2_pop(stack)
    /\ Continue("pop", 0)
    /\ UNCHANGED <<entry, body, is_executing, local_registers, scope, scopes,
                   captured, props>>

\* Activation::op_dup
op_dup ==
    /\ Executing
    /\ Len(stack) < MaxStackLen
    /\ stack' = avm2_push(stack, avm2_top(stack))
    /\ Continue("dup", 0)
    /\ UNCHANGED <<entry, body, is_executing, local_registers, scope, scopes,
                   captured, props>>

\* Activation::op_get_local
op_get_local(register_index) ==
    /\ Executing
    /\ Len(stack) < MaxStackLen
    /\ IF has_register(local_registers, register_index)
       THEN /\ stack' = avm2_push(stack, local_registers[register_index + 1])
            /\ Continue("getlocal", 0)
       ELSE /\ Fail("getlocal", "Out of bounds register read")
            /\ UNCHANGED stack
    /\ UNCHANGED <<entry, body, is_executing, local_registers, scope, scopes,
                   captured, props>>

\* Activation::op_set_local
op_set_local(register_index) ==
    /\ Executing
    /\ stack' = avm2_pop(stack)
    /\ IF has_register(local_registers, register_index)
       THEN /\ local_registers' =
                  [local_registers EXCEPT ![register_index + 1] = avm2_top(stack)]
            /\ Continue("setlocal", 0)
       ELSE /\ Fail("setlocal", "Out of bounds register write")
            /\ UNCHANGED local_registers
    /\ UNCHANGED <<entry, body, is_executing, scope, scopes, captured, props>>

\* Activation::op_kill
op_kill(register_index) ==
    /\ Executing
    /\ IF has_register(local_registers, register_index)
       THEN /\ local_registers' =
                  [local_registers EXCEPT ![register_index + 1] = Undefined]
            /\ Continue("kill", 0)
       ELSE /\ Fail("kill", "Out of bounds register write")
            /\ UNCHANGED local_registers
    /\ UNCHANGED <<entry, body, is_executing, stack, scope, scopes, captured,
                   props>>

\* Activation::op_return_value
op_return_value ==
    /\ Executing
    /\ stack' = avm2_pop(stack)
    /\ Return("returnvalue", avm2_top(stack))
    /\ UNCHANGED <<entry, body, is_executing, local_registers, scope, scopes,
                   captured, props>>

\* Activation::op_return_void
op_return_void ==
    /\ Executing
    /\ Return("returnvoid", Undefined)
    /\ UNCHANGED <<entry, body, is_executing, stack, local_registers, scope,
                   scopes, captured, props>>

(***************************************************************************)
(* Names (names.rs).  The constant pool of the ABC file is content: the    *)
(* pool below holds one entry of each shape the instructions can index.    *)
(***************************************************************************)
AnyNs == "any"
\* constant_pool.strings
StringPool == <<"x", "y">>
\* constant_pool.namespaces
NamespacePool == <<PublicNs, PrivateNs>>
\* constant_pool.namespace_sets, each a list of namespace indices
NamespaceSetPool == <<<<2, 1>>>>
\* constant_pool.multinames
MultinamePool ==
    <<[kind |-> "QName", namespace |-> 1, namespace_set |-> 0, name |-> 1],
      [kind |-> "QName", namespace |-> 1, namespace_set |-> 0, name |-> 2],
      [kind |-> "QName", namespace |-> 2, namespace_set |-> 0, name |-> 2],
      [kind |-> "QName", namespace |-> 0, namespace_set |-> 0, name |-> 1],
      [kind |-> "QName", namespace |-> 3, namespace_set |-> 0, name |-> 1],
      [kind |-> "QName", namespace |-> 1, namespace_set |-> 0, name |-> 0],
      [kind |-> "Multiname", namespace |-> 0, namespace_set |-> 1, name |-> 1],
      [kind |-> "Multiname", namespace |-> 0, namespace_set |-> 0, name |-> 2],
      [kind |-> "Multiname", namespace |-> 0, namespace_set |-> 2, name |-> 1]>>
MultinameIndices == 0..(Len(MultinamePool) + 1)

NameErr(msg) == [res |-> "Err", ns |-> <<>>, name |-> "", msg |-> msg]
NamePanic == [res |-> "Panic", ns |-> <<>>, name |-> "", msg |-> ""]
\* A decoded Multiname: its namespaces in order and its local name, "" when
\* the name is None (any name)
NameOk(ns, name) == [res |-> "Ok", ns |-> ns, name |-> name, msg |-> ""]

\* value::abc_string_option: None for index 0
abc_string_option(index) ==
    IF index = 0 THEN [ok |-> TRUE, s |-> ""]
    ELSE IF index \in DOMAIN StringPool
         THEN [ok |-> TRUE, s |-> StringPool[index]]
         ELSE [ok |-> FALSE, s |-> ""]

\* Namespace::from_abc_namespace: Any for index 0
from_abc_namespace(namespace_index) ==
    IF namespace_index = 0 THEN [ok |-> TRUE, ns |-> AnyNs]
    ELSE IF namespace_index \in DOMAIN NamespacePool
         THEN [ok |-> TRUE, ns |-> NamespacePool[namespace_index]]
         ELSE [ok |-> FALSE, ns |-> ""]

\* Multiname::abc_namespace_set: the empty list for index 0
abc_namespace_set(namespace_set_index) ==
    IF namespace_set_index = 0 THEN [ok |-> TRUE, ns |-> <<>>]
    ELSE IF namespace_set_index \notin DOMAIN NamespaceSetPool
         THEN [ok |-> FALSE, ns |-> <<>>]
         ELSE LET set == NamespaceSetPool[namespace_set_index]
              IN  IF \E k \in DOMAIN set : ~from_abc_namespace(set[k]).ok
                  THEN [ok |-> FALSE, ns |-> <<>>]
                  ELSE [ok |-> TRUE,
                        ns |-> [k \in DOMAIN set |->
                                   from_abc_namespace(set[k]).ns]]

\* Multiname::from_abc_multiname.  `multiname_index.0 as usize - 1` has no
\* guard for index 0: a build with overflow checks panics on the
\* subtraction, a build without them wraps to usize::MAX, which is past the
\* end of the pool.
from_abc_multiname(multiname_index, overflow_checks) ==
    IF multiname_index = 0
    THEN IF overflow_checks THEN NamePanic
         ELSE NameErr("Unknown multiname constant")
    ELSE IF multiname_index \notin DOMAIN MultinamePool
    THEN NameErr("Unknown multiname constant")
    ELSE LET m == MultinamePool[multiname_index]
             name == abc_string_option(m.name)
         IN  IF m.kind = "QName"
             THEN IF ~from_abc_namespace(m.namespace).ok
                  THEN NameErr("Unknown namespace constant")
                  ELSE IF ~name.ok THEN NameErr("Unknown string constant")
                  ELSE NameOk(<<from_abc_namespace(m.namespace).ns>>, name.s)
             ELSE IF ~abc_namespace_set(m.namespace_set).ok
                  THEN NameErr("Unknown namespace set constant")
                  ELSE IF ~name.ok THEN NameErr("Unknown string constant")
                  ELSE NameOk(abc_namespace_set(m.namespace_set).ns, name.s)

(***************************************************************************)
(* Objects: the names each object's class declares, and name resolution.   *)
(***************************************************************************)
\* The traits of the modelled objects
traits(o) ==
    IF o = Global THEN {QName(PublicNs, "x")}
    ELSE IF o = Sealed THEN {QName(PublicNs, "x"), QName(PrivateNs, "y")}
    ELSE {}
\* Whether the object's class is dynamic
is_dynamic(o) == o # Sealed

RECURSIVE resolve_from(_, _, _)
\* TObject::resolve_multiname from the k-th namespace of the multiname on:
\* the first namespace of the set under which the names hold the local
\* name; <<>> when there is none.
resolve_from(names, multiname, k) ==
    IF k > Len(multiname.ns) \/ multiname.name = "" THEN <<>>
    ELSE IF multiname.ns[k] = AnyNs
         THEN IF \E q \in names : q[2] = multiname.name
              THEN CHOOSE q \in names : q[2] = multiname.name
              ELSE <<>>
         ELSE IF QName(multiname.ns[k], multiname.name) \in names
              THEN QName(multiname.ns[k], multiname.name)
              ELSE resolve_from(names, multiname, k + 1)

\* TObject::resolve_multiname against the declared traits of the object
resolve_multiname(o, multiname) == resolve_from(traits(o), multiname, 1)

(***************************************************************************)
(* The scope chain (avm2::scope).  Cells are never written after they are  *)
(* allocated: a push allocates a new head whose parent is the old chain.   *)
(***************************************************************************)
\* Scope::push_scope / Scope::push_with: the heap with the new cell
Scope_push(cells, parent, object, is_with) ==
    Append(cells, ScopeCell(object, parent, is_with))
\* Scope::pop_scope: the parent of the cell
Scope_pop_scope(cells, sc) == cells[sc].parent

RECURSIVE Scope_find(_, _, _, _)
\* Scope::find: the object of the innermost cell that resolves the
\* multiname, 0 when no cell does.  A `with` cell also offers the
\* properties its object holds.
Scope_find(cells, ps, sc, multiname) ==
    IF sc = 0 THEN 0
    ELSE LET o == cells[sc].locals
             names == IF cells[sc].is_with THEN traits(o) \cup ps[o]
                      ELSE traits(o)
         IN  IF resolve_from(names, multiname, 1) # <<>> THEN o
             ELSE Scope_find(cells, ps, cells[sc].parent, multiname)

(***************************************************************************)
(* Scope instructions.                                                     *)
(***************************************************************************)
\* The scope as a function object captures it, or as a push leaves it behind
Snapshot(cells, sc) == [cell |-> sc, chain |-> ScopeChain(cells, sc)]

\* op_push_scope / op_push_with: the popped value becomes the new head
push_scope_op(op, is_with) ==
    /\ Executing
    /\ Len(scopes) < MaxScopeNodes
    /\ stack' = avm2_pop(stack)
    /\ IF is_object(avm2_top(stack))
       THEN /\ scopes' = Scope_push(scopes, scope, avm2_top(stack).v, is_with)
            /\ scope' = Len(scopes) + 1
            /\ ContinueScope(op, Snapshot(scopes, scope))
       ELSE /\ Fail(op, "Object expected")
            /\ UNCHANGED <<scope, scopes>>
    /\ UNCHANGED <<entry, body, is_executing, local_registers, captured,
                   props>>

\* Activation::op_push_scope
op_push_scope == push_scope_op("pushscope", FALSE)
\* Activation::op_push_with
op_push_with == push_scope_op("pushwith", TRUE)

\* A faulty op_pop_scope: the scope is cleared instead of set to the parent
op_pop_scope_clears ==
    /\ Executing
    /\ scope' = 0
    /\ ContinueScope("popscope",
           IF last.op \in {"pushscope", "pushwith"} /\ last.res = "Continue"
           THEN last.undo ELSE NoUndo)
    /\ UNCHANGED <<entry, body, is_executing, stack, local_registers, scopes,
                   captured, props>>

\* Activation::op_pop_scope: None stays None
op_pop_scope ==
    /\ Executing
    /\ scope' = IF scope = 0 THEN 0 ELSE Scope_pop_scope(scopes, scope)
    /\ ContinueScope("popscope",
           IF last.op \in {"pushscope", "pushwith"} /\ last.res = "Continue"
           THEN last.undo ELSE NoUndo)
    /\ UNCHANGED <<entry, body, is_executing, stack, local_registers, scopes,
                   captured, props>>

\* Activation::op_new_function: the function object closes over self.scope()
op_new_function(method_exists) ==
    /\ Executing
    /\ Len(stack) < MaxStackLen
    /\ IF method_exists
       THEN /\ captured' = Snapshot(scopes, scope)
            /\ stack' = avm2_push(stack, ObjectValue(Closure))
            /\ Continue("newfunction", 0)
       ELSE /\ Fail("newfunction", "Method index does not exist")
            /\ UNCHANGED <<captured, stack>>
    /\ UNCHANGED <<entry, body, is_executing, local_registers, scope, scopes,
                   props>>

\* op_find_property / op_find_prop_strict.  The note of the step is the
\* object found, 0 when no scope resolves the name, -1 when the multiname
\* could not be read.
find_op(op, strict, index, overflow_checks) ==
    LET multiname == from_abc_multiname(index, overflow_checks)
        found == Scope_find(scopes, props, scope, multiname)
    IN  /\ Executing
        /\ Len(stack) < MaxStackLen
        /\ CASE multiname.res = "Panic" ->
                    /\ Panic(op)
                    /\ UNCHANGED stack
              [] multiname.res = "Err" ->
                    /\ FailNote(op, multiname.msg, -1)
                    /\ UNCHANGED stack
              [] multiname.res = "Ok" /\ found = 0 /\ strict ->
                    /\ FailNote(op, "Property does not exist", 0)
                    /\ UNCHANGED stack
              [] multiname.res = "Ok" /\ found = 0 /\ ~strict ->
                    /\ stack' = avm2_push(stack, Undefined)
                    /\ Continue(op, 0)
              [] OTHER ->
                    /\ stack' = avm2_push(stack, ObjectValue(found))
                    /\ Continue(op, found)
        /\ UNCHANGED <<entry, body, is_executing, local_registers, scope,
                       scopes, captured, props>>

\* Activation::op_find_property
op_find_property(index, overflow_checks) ==
    find_op("findproperty", FALSE, index, overflow_checks)
\* Activation::op_find_prop_strict
op_find_prop_strict(index, overflow_checks) ==
    find_op("findpropstrict", TRUE, index, overflow_checks)

(***************************************************************************)
(* Property instructions.                                                  *)
(***************************************************************************)
\* TObject::set_property / init_property as far as the set of names the
\* object holds goes: a name that is no trait becomes a property
TObject_set_property(ps, o, name) ==
    IF name \in traits(o) THEN ps ELSE [ps EXCEPT ![o] = @ \cup {name}]

\* op_set_property / op_init_property: the value is popped, the multiname
\* is read, the object is popped
set_property_op(op, index, overflow_checks) ==
    LET multiname == from_abc_multiname(index, overflow_checks)
        s1 == avm2_pop(stack)
        object == avm2_top(s1)
        s2 == avm2_pop(s1)
    IN  /\ Executing
        /\ CASE multiname.res = "Panic" ->
                    /\ Panic(op)
                    /\ stack' = s1
                    /\ UNCHANGED props
              [] multiname.res = "Err" ->
                    /\ Fail(op, multiname.msg)
                    /\ stack' = s1
                    /\ UNCHANGED props
              [] multiname.res = "Ok" /\ ~is_object(object) ->
                    /\ Fail(op, "Object expected")
                    /\ stack' = s2
                    /\ UNCHANGED props
              [] multiname.res = "Ok" /\ is_object(object)
                   /\ resolve_multiname(object.v, multiname) # <<>> ->
                    /\ props' = TObject_set_property(props, object.v,
                                    resolve_multiname(object.v, multiname))
                    /\ stack' = s2
                    /\ Continue(op, 1)
              [] multiname.res = "Ok" /\ is_object(object)
                   /\ resolve_multiname(object.v, multiname) = <<>>
                   /\ multiname.name = "" ->
                    /\ Fail(op, "Cannot set property using any name")
                    /\ stack' = s2
                    /\ UNCHANGED props
              [] OTHER ->
                    /\ props' = TObject_set_property(props, object.v,
                                    dynamic_name(multiname.name))
                    /\ stack' = s2
                    /\ Continue(op, 2)
        /\ UNCHANGED <<entry, body, is_executing, local_registers, scope,
                       scopes, captured>>

\* Activation::op_set_property
op_set_property(index, overflow_checks) ==
    set_property_op("setproperty", index, overflow_checks)
\* Activation::op_init_property
op_init_property(index, overflow_checks) ==
    set_property_op("initproperty", index, overflow_checks)

(***************************************************************************)
(* Slot instructions.  Every object has the slot 1; TObject::get_slot and  *)
(* set_slot give an error for any other index.                             *)
(***************************************************************************)
SlotIndices == {1}
InitSlot == slots = [o \in ObjectIds |-> [i \in SlotIndices |-> Undefined]]

\* Activation::op_get_slot
op_get_slot(index) ==
    LET object == avm2_top(stack)
        s1 == avm2_pop(stack)
    IN  /\ Executing
        /\ IF ~is_object(object)
           THEN Fail("getslot", "Object expected") /\ stack' = s1
           ELSE IF index \notin DOMAIN slots[object.v]
           THEN Fail("getslot", "Slot index out of bounds") /\ stack' = s1
           ELSE /\ stack' = avm2_push(s1, slots[object.v][index])
                /\ Continue("getslot", index)
        /\ UNCHANGED <<entry, body, is_executing, local_registers, scope,
                       scopes, captured, props, slots>>

\* Activation::op_set_slot: the object is popped, then the value
op_set_slot(index) ==
    LET object == avm2_top(stack)
        s1 == avm2_pop(stack)
        value == avm2_top(s1)
        s2 == avm2_pop(s1)
    IN  /\ Executing
        /\ IF ~is_object(object)
           THEN /\ Fail("setslot", "Object expected")
                /\ stack' = s1
                /\ UNCHANGED slots
           ELSE IF index \notin DOMAIN slots[object.v]
           THEN /\ Fail("setslot", "Slot index out of bounds")
                /\ stack' = s2
                /\ UNCHANGED slots
           ELSE /\ slots' = [slots EXCEPT ![object.v][index] = value]
                /\ stack' = s2
                /\ Continue("setslot", index)
        /\ UNCHANGED <<entry, body, is_executing, local_registers, scope,
                       scopes, captured, props>>

(***************************************************************************)
(* Enumeration (op_has_next_2).  A u32 is kept at its width as two 16-bit  *)
(* halves.                                                                 *)
(***************************************************************************)
U16Max == 2 ^ 16 - 1
U32(hi, lo) == [hi |-> hi, lo |-> lo]

\* Value::as_number: Ok for a number
is_number(val) == val.t \in {"number", "number_u32max"}

\* `cur_index as u32`: the cast saturates at 0 and at u32::MAX
as_u32(val) ==
    IF val.t = "number_u32max" THEN U32(U16Max, U16Max)
    ELSE IF val.v < 0 THEN U32(0, 0)
    ELSE U32(val.v \div (U16Max + 1), val.v % (U16Max + 1))

\* `x + 1` on a u32 overflows for u32::MAX only
add_one_overflows(u) == u = U32(U16Max, U16Max)
\* `x + 1` on a u32, wrapping
add_one(u) ==
    IF u.lo < U16Max THEN U32(u.hi, u.lo + 1)
    ELSE IF u.hi < U16Max THEN U32(u.hi + 1, 0)
    ELSE U32(0, 0)

\* TObject::proto: the prototype of the object, 0 for None
proto(o) ==
    IF o = Dyn THEN Sealed
    ELSE IF o = Sealed THEN Global
    ELSE IF o = Closure THEN Sealed
    ELSE 0
\* The number of enumerants of the object; they are numbered from 1
enumerant_count(o) ==
    IF o = Dyn THEN 2 ELSE IF o = Global THEN 1 ELSE 0
\* TObject::get_enumerant_name(index).is_some()
has_enumerant(o, index) ==
    index.hi = 0 /\ index.lo >= 1 /\ index.lo <= enumerant_count(o)

RECURSIVE has_next_walk(_, _)
\* The loop of op_has_next_2: the object and index it ends with
has_next_walk(object, next_index) ==
    IF object = 0 THEN [object |-> 0, next_index |-> U32(0, 0)]
    ELSE IF ~has_enumerant(object, next_index)
         THEN has_next_walk(proto(object), U32(0, 1))
         ELSE [object |-> object, next_index |-> next_index]

\* The pair of register operands of an instruction, as the note of the step
RegPair(a, b) == a * (MaxLocals + MaxParams + 2) + b

\* Activation::op_has_next_2
op_has_next_2(object_register, index_register, overflow_checks) ==
    LET cur_index == local_registers[index_register + 1]
        object == local_registers[object_register + 1]
        next_index == add_one(as_u32(cur_index))
        end == has_next_walk(object.v, next_index)
        note == RegPair(object_register, index_register)
    IN  /\ Executing
        /\ Len(stack) < MaxStackLen
        /\ CASE ~has_register(local_registers, index_register) ->
                    /\ FailNote("hasnext2", "Out of bounds register read", note)
                    /\ UNCHANGED <<stack, local_registers>>
              [] has_register(local_registers, index_register)
                   /\ ~is_number(cur_index) ->
                    /\ FailNote("hasnext2", "Number expected", note)
                    /\ UNCHANGED <<stack, local_registers>>
              [] has_register(local_registers, index_register)
                   /\ is_number(cur_index)
                   /\ ~has_register(local_registers, object_register) ->
                    /\ FailNote("hasnext2", "Out of bounds register read", note)
                    /\ UNCHANGED <<stack, local_registers>>
              [] has_register(local_registers, index_register)
                   /\ is_number(cur_index)
                   /\ has_register(local_registers, object_register)
                   /\ ~is_object(object) ->
                    /\ FailNote("hasnext2", "Object expected", note)
                    /\ UNCHANGED <<stack, local_registers>>
              [] has_register(local_registers, index_register)
                   /\ is_number(cur_index)
                   /\ has_register(local_registers, object_register)
                   /\ is_object(object)
                   /\ add_one_overflows(as_u32(cur_index))
                   /\ overflow_checks ->
                    /\ act_state' = "panic"
                    /\ last' = Did("hasnext2", "Panic", note)
                    /\ UNCHANGED <<readers, result, stack, local_registers>>
              [] OTHER ->
                    /\ stack' = avm2_push(stack, Bool(end.next_index # U32(0, 0)))
                    /\ local_registers' =
                          [[local_registers EXCEPT ![index_register + 1] =
                               Number(end.next_index.lo)]
                             EXCEPT ![object_register + 1] =
                               IF end.object = 0 THEN Null
                               ELSE ObjectValue(end.object)]
                    /\ Continue("hasnext2", note)
        /\ UNCHANGED <<entry, body, is_executing, scope, scopes, captured,
                       props>>

(***************************************************************************)
(* AVM1 MovieClip built-ins (avm1/globals/movie_clip.rs).                  *)
(***************************************************************************)
AVM_DEPTH_BIAS == 16384
AVM_MAX_DEPTH == 2130706428

I32Max == 2147483647
I32Min == -I32Max - 1
\* i32::wrapping_add for a non-negative b
wrapping_add(a, b) ==
    IF a > I32Max - b THEN I32Min + (b - (I32Max - a) - 1) ELSE a + b

\* The symbols the movie's library exports
Exports == {"symbol"}
\* Library::instantiate_by_export_name(..).is_ok()
instantiate_by_export_name(export_name) == export_name \in Exports
\* MovieClip::add_child_from_avm: the child takes the depth, in place of a
\* child that was there
add_child_from_avm(ch, child, depth) ==
    [d \in DOMAIN ch \cup {depth} |-> IF d = depth THEN child ELSE ch[d]]

\* The display object a built-in is called on: the kind of its parent
\* ("clip": the modelled clip, "button": a parent that is no movie clip,
\* "none": no parent) and its stored depth
Receiver(parent, depth) == [parent |-> parent, depth |-> depth]
NoReceiver == Receiver("", 0)

\* The record of a call: the built-in, the number of arguments, the export
\* name and script depth passed, the kind of value returned, the receiver,
\* a number of the call's own (the number returned, or the receiver's
\* stored depth after the call) and the parent of a target argument.
CallOn(op, nargs, export_name, depth, ret, receiver, value, target) ==
    [op |-> op, nargs |-> nargs, export_name |-> export_name,
     depth |-> depth, ret |-> ret, receiver |-> receiver, value |-> value,
     target |-> target, swf_version |-> 0]
\* The record of a call whose result depends on the SWF version
WithVersion(call, swf_version) == [call EXCEPT !.swf_version = swf_version]
Call(op, nargs, export_name, depth, ret) ==
    CallOn(op, nargs, export_name, depth, ret, NoReceiver, 0, "")

InitClip ==
    /\ children = <<>>
    /\ clip_last = Call("", 0, "", 0, "")

\* A faulty attach_movie: the range is checked on the depth the script
\* passed, not on the biased depth
attach_movie_checks_script_depth(nargs, export_name, new_instance_name, d) ==
    LET depth == wrapping_add(d, AVM_DEPTH_BIAS)
    IN  IF nargs < 3
        THEN /\ clip_last' = Call("attachMovie", nargs, export_name, d, "panic")
             /\ UNCHANGED children
        ELSE IF d < 0 \/ d > AVM_MAX_DEPTH
        THEN /\ clip_last' =
                   Call("attachMovie", nargs, export_name, d, "undefined")
             /\ UNCHANGED children
        ELSE IF instantiate_by_export_name(export_name)
        THEN /\ children' =
                   add_child_from_avm(children, new_instance_name, depth)
             /\ clip_last' =
                   Call("attachMovie", nargs, export_name, d, "object")
        ELSE /\ clip_last' =
                   Call("attachMovie", nargs, export_name, d, "undefined")
             /\ UNCHANGED children

\* attach_movie, called with nargs arguments of which the third is the
\* 32-bit integer d.  `&args[0..3]` panics when fewer than 3 were passed.
attach_movie(nargs, export_name, new_instance_name, d) ==
    LET depth == wrapping_add(d, AVM_DEPTH_BIAS)
    IN  IF nargs < 3
        THEN /\ clip_last' = Call("attachMovie", nargs, export_name, d, "panic")
             /\ UNCHANGED children
        ELSE IF depth < 0 \/ depth > AVM_MAX_DEPTH
        THEN /\ clip_last' =
                   Call("attachMovie", nargs, export_name, d, "undefined")
             /\ UNCHANGED children
        ELSE IF instantiate_by_export_name(export_name)
        THEN /\ children' =
                   add_child_from_avm(children, new_instance_name, depth)
             /\ clip_last' =
                   Call("attachMovie", nargs, export_name, d, "object")
        ELSE /\ clip_last' =
                   Call("attachMovie", nargs, export_name, d, "undefined")
             /\ UNCHANGED children

\* i32::wrapping_sub for a non-negative b
wrapping_sub(a, b) ==
    IF a < I32Min + b THEN I32Max - (b - (a - I32Min) - 1) ELSE a - b

\* create_empty_movie_clip.  `&args[0..2]` panics when fewer than 2
\* arguments were passed; the biased depth is not range-checked.
create_empty_movie_clip(nargs, new_instance_name, d) ==
    LET depth == wrapping_add(d, AVM_DEPTH_BIAS)
    IN  IF nargs < 2
        THEN /\ clip_last' = Call("createEmptyMovieClip", nargs, "", d, "panic")
             /\ UNCHANGED children
        ELSE /\ children' =
                   add_child_from_avm(children, new_instance_name, depth)
             /\ clip_last' =
                   Call("createEmptyMovieClip", nargs, "", d, "object")

\* create_text_field; d is the depth passed, read as 0 when fewer than 2
\* arguments were passed (undefined coerces to NaN, and NaN casts to 0).
create_text_field(nargs, instance_name, d, swf_version) ==
    LET depth == IF nargs < 2 THEN 0 ELSE d
    IN  /\ children' =
              add_child_from_avm(children, instance_name,
                                 wrapping_add(depth, AVM_DEPTH_BIAS))
        /\ clip_last' =
              WithVersion(Call("createTextField", nargs, "", depth,
                               IF swf_version >= 8 THEN "object"
                               ELSE "undefined"),
                          swf_version)

\* duplicate_movie_clip_with_bias, called by duplicate_movie_clip with
\* AVM_DEPTH_BIAS: the copy is added to the parent of the receiver.
duplicate_movie_clip_with_bias(nargs, receiver, new_instance_name, d, instantiable, depth_bias) ==
    LET depth == wrapping_add(d, depth_bias)
        ended(ret) ==
            /\ clip_last' = CallOn("duplicateMovieClip", nargs, "", d, ret,
                                   receiver, 0, "")
            /\ UNCHANGED children
    IN  IF nargs < 2 THEN ended("panic")
        ELSE IF receiver.parent # "clip" THEN ended("undefined")
        ELSE IF depth < 0 \/ depth > AVM_MAX_DEPTH THEN ended("undefined")
        ELSE IF ~instantiable THEN ended("undefined")
        ELSE /\ children' =
                   add_child_from_avm(children, new_instance_name, depth)
             /\ clip_last' = CallOn("duplicateMovieClip", nargs, "", d,
                                    "object", receiver, 0, "")

\* duplicate_movie_clip
duplicate_movie_clip(nargs, receiver, new_instance_name, d, instantiable) ==
    duplicate_movie_clip_with_bias(nargs, receiver, new_instance_name, d,
                                   instantiable, AVM_DEPTH_BIAS)

\* The value get_depth returns for a display object at a stored depth: the
\* stored depth less the bias, or undefined below SWF version 6
get_depth_value(depth, swf_version) ==
    IF swf_version >= 6
    THEN [ret |-> "number", value |-> wrapping_sub(depth, AVM_DEPTH_BIAS)]
    ELSE [ret |-> "undefined", value |-> 0]

\* get_depth (display_object.rs)
get_depth(receiver, swf_version) ==
    LET v == get_depth_value(receiver.depth, swf_version)
    IN  /\ clip_last' =
              WithVersion(CallOn("getDepth", 0, "", 0, v.ret, receiver,
                                 v.value, ""),
                          swf_version)
        /\ UNCHANGED children

\* The depth below which remove_movie_clip removes a clip
RemoveDepthLimit == 2130706416
\* MovieClip::remove_child_from_avm: the child at the depth leaves the list
remove_child_from_avm(ch, depth) == [d \in DOMAIN ch \ {depth} |-> ch[d]]

\* A faulty remove_movie_clip: the lower end of the range is excluded
remove_movie_clip_above_bias(receiver) ==
    LET depth == wrapping_sub(receiver.depth, 0)
    IN  /\ children' =
              IF depth > AVM_DEPTH_BIAS /\ depth < RemoveDepthLimit
                 /\ receiver.parent = "clip"
              THEN remove_child_from_avm(children, receiver.depth)
              ELSE children
        /\ clip_last' = CallOn("removeMovieClip", 0, "", 0, "undefined",
                               receiver, 0, "")

\* remove_movie_clip
remove_movie_clip(receiver) ==
    LET depth == wrapping_sub(receiver.depth, 0)
    IN  /\ children' =
              IF depth >= AVM_DEPTH_BIAS /\ depth < RemoveDepthLimit
                 /\ receiver.parent = "clip"
              THEN remove_child_from_avm(children, receiver.depth)
              ELSE children
        /\ clip_last' = CallOn("removeMovieClip", 0, "", 0, "undefined",
                               receiver, 0, "")

\* MovieClip::swap_child_to_depth: the child takes the depth, and a child
\* that was there takes the depth the child had
swap_child_to_depth(ch, from, to) ==
    [d \in ((DOMAIN ch \ {from}) \cup {to})
              \cup (IF to \in DOMAIN ch THEN {from} ELSE {}) |->
        IF d = to THEN ch[from] ELSE IF d = from THEN ch[to] ELSE ch[d]]

\* The argument of swapDepths: a number, or a target display object given
\* by the kind of its parent ("clip": the parent of the receiver, "other":
\* another parent, "none": no parent) and its stored depth, or a value that
\* resolves to no display object
NumberArg(n) == [kind |-> "number", n |-> n, parent |-> ""]
TargetArg(parent, depth) == [kind |-> "target", n |-> depth, parent |-> parent]
InvalidArg == [kind |-> "invalid", n |-> 0, parent |-> ""]

\* The depth swap_depths resolves its argument to: [some, depth]
swap_depths_depth(arg) ==
    IF arg.kind = "number"
    THEN [some |-> TRUE, depth |-> wrapping_add(arg.n, AVM_DEPTH_BIAS)]
    ELSE IF arg.kind = "target" /\ arg.parent = "clip"
    THEN [some |-> TRUE, depth |-> arg.n]
    ELSE [some |-> FALSE, depth |-> 0]

\* A faulty swap_depths: the resolved depth is not range-checked
swap_depths_unchecked(receiver, arg) ==
    LET depth == swap_depths_depth(arg)
        moves == /\ receiver.parent = "clip"
                 /\ depth.some
                 /\ depth.depth # receiver.depth
    IN  /\ children' =
              IF moves
              THEN swap_child_to_depth(children, receiver.depth, depth.depth)
              ELSE children
        /\ clip_last' =
              CallOn("swapDepths", 1, "", arg.n, "undefined", receiver,
                     IF moves THEN depth.depth ELSE receiver.depth,
                     IF arg.kind = "number" THEN "" ELSE
                     IF arg.kind = "invalid" THEN "invalid" ELSE arg.parent)

\* swap_depths
swap_depths(receiver, arg) ==
    LET depth == swap_depths_depth(arg)
        moves == /\ receiver.parent = "clip"
                 /\ depth.some
                 /\ ~(depth.depth < 0 \/ depth.depth > AVM_MAX_DEPTH)
                 /\ depth.depth # receiver.depth
    IN  /\ children' =
              IF moves
              THEN swap_child_to_depth(children, receiver.depth, depth.depth)
              ELSE children
        /\ clip_last' =
              CallOn("swapDepths", 1, "", arg.n, "undefined", receiver,
                     IF moves THEN depth.depth ELSE receiver.depth,
                     IF arg.kind = "number" THEN "" ELSE
                     IF arg.kind = "invalid" THEN "invalid" ELSE arg.parent)

(***************************************************************************)
(* The drawing built-ins of MovieClip (avm1/globals/movie_clip.rs).  A     *)
(* fill style is its kind and, for a gradient, the number of its records.  *)
(***************************************************************************)
\* An f64: a whole number, an infinity or NaN
F64(n) == [t |-> "num", v |-> n]
Infinity == [t |-> "inf", v |-> 0]
NegInfinity == [t |-> "-inf", v |-> 0]
NaN == [t |-> "nan", v |-> 0]
\* a <= b for two f64 that are not NaN
f64_le(a, b) ==
    \/ a.t = "-inf"
    \/ b.t = "inf"
    \/ a.t = "num" /\ b.t = "num" /\ a.v <= b.v
\* f64::min and f64::max: of a NaN and a number, the number
f64_min(a, b) ==
    IF a.t = "nan" THEN b ELSE IF b.t = "nan" THEN a
    ELSE IF f64_le(a, b) THEN a ELSE b
f64_max(a, b) ==
    IF a.t = "nan" THEN b ELSE IF b.t = "nan" THEN a
    ELSE IF f64_le(a, b) THEN b ELSE a

NoFill == [kind |-> "none", records |-> 0]
FillStyle(kind, records) == [kind |-> kind, records |-> records]

\* The record of a drawing call: the built-in, the number of arguments, the
\* method and the lengths of the colors, alphas and ratios arrays passed
\* (0 for an array not passed), and whether a warning was logged
DrawCall(op, nargs, method, colors, alphas, ratios, warned) ==
    [op |-> op, nargs |-> nargs, method |-> method, colors |-> colors,
     alphas |-> alphas, ratios |-> ratios, warned |-> warned,
     ret |-> "undefined", width |-> NaN]

\* Twips::from_pixels of a whole number of pixels: 20 twips to the pixel
Twips_from_pixels(pixels) == 20 * pixels.v

\* No line style, and a line style of a width in twips
NoLine == [some |-> FALSE, width |-> 0]
LineStyle(width) == [some |-> TRUE, width |-> width]

\* The record of a lineStyle call: the number of arguments and the width
LineCall(nargs, width) ==
    [op |-> "lineStyle", nargs |-> nargs, method |-> "", colors |-> 0,
     alphas |-> 0, ratios |-> 0, warned |-> FALSE, ret |-> "undefined",
     width |-> width]

\* A faulty line_style: the width is capped at 255 but not raised to 0
line_style_no_floor(nargs, width) ==
    /\ line_style_set' =
          IF nargs >= 1
          THEN LineStyle(Twips_from_pixels(f64_min(width, F64(255))))
          ELSE NoLine
    /\ draw_last' = LineCall(nargs, width)

\* line_style, called with nargs arguments of which the first is the number
\* width; the colour, the hinting, the scaling, the caps and the joins it
\* reads from the other arguments do not bear on the width
line_style(nargs, width) ==
    /\ line_style_set' =
          IF nargs >= 1
          THEN LineStyle(Twips_from_pixels(
                             f64_max(f64_min(width, F64(255)), F64(0))))
          ELSE NoLine
    /\ draw_last' = LineCall(nargs, width)

InitDraw ==
    /\ fill_style = NoFill
    /\ line_style_set = NoLine
    /\ draw_last = [DrawCall("", 0, "", 0, 0, 0, FALSE) EXCEPT !.ret = ""]

\* begin_fill: a colour fill when a colour was passed, no fill otherwise
begin_fill(nargs) ==
    /\ fill_style' = IF nargs >= 1 THEN FillStyle("color", 0) ELSE NoFill
    /\ draw_last' = DrawCall("beginFill", nargs, "", 0, 0, 0, FALSE)

\* A faulty begin_gradient_fill: arrays of different lengths clear the fill
begin_gradient_fill_clears(nargs, method, colors, alphas, ratios) ==
    LET call(warned) == DrawCall("beginGradientFill", nargs, method, colors,
                                 alphas, ratios, warned)
    IN  IF nargs >= 5
        THEN IF colors # alphas \/ colors # ratios
             THEN fill_style' = NoFill /\ draw_last' = call(TRUE)
             ELSE IF method = "linear"
             THEN /\ fill_style' = FillStyle("linear", colors)
                  /\ draw_last' = call(FALSE)
             ELSE IF method = "radial"
             THEN /\ fill_style' =
                        FillStyle(IF nargs >= 8 THEN "focal" ELSE "radial",
                                  colors)
                  /\ draw_last' = call(FALSE)
             ELSE UNCHANGED fill_style /\ draw_last' = call(TRUE)
        ELSE fill_style' = NoFill /\ draw_last' = call(FALSE)

\* begin_gradient_fill, called with nargs arguments: the method and the
\* arrays colors, alphas and ratios of the lengths given, then a matrix and
\* what follows it.  With fewer than 5 arguments the fill is cleared.
begin_gradient_fill(nargs, method, colors, alphas, ratios) ==
    LET call(warned) == DrawCall("beginGradientFill", nargs, method, colors,
                                 alphas, ratios, warned)
    IN  IF nargs >= 5
        THEN IF colors # alphas \/ colors # ratios
             THEN UNCHANGED fill_style /\ draw_last' = call(TRUE)
             ELSE IF method = "linear"
             THEN /\ fill_style' = FillStyle("linear", colors)
                  /\ draw_last' = call(FALSE)
             ELSE IF method = "radial"
             THEN /\ fill_style' =
                        FillStyle(IF nargs >= 8 THEN "focal" ELSE "radial",
                                  colors)
                  /\ draw_last' = call(FALSE)
             ELSE UNCHANGED fill_style /\ draw_last' = call(TRUE)
        ELSE fill_style' = NoFill /\ draw_last' = call(FALSE)

(***************************************************************************)
(* The timeline (core/src/movie_clip.rs) and the goto built-ins            *)
(* (avm1/globals/movie_clip.rs).  The movie is a root clip of root_total   *)
(* frames; frame f of the root has the tags PlaceObject(depth f), DoAction *)
(* and ShowFrame, and frame 3 starts with RemoveObject(depth 2).  When the *)
(* movie defines a sprite (child_total > 0) the object placed at depth 1   *)
(* is a clip named "1" of child_total frames, each with a DoAction tag.    *)
(* A script is opaque: what it calls is a step of its own.                 *)
(***************************************************************************)
\* MovieClip::new_with_data
new_with_data == [current_frame |-> 0, is_playing |-> TRUE, goto_queue |-> <<>>]

\* The log of the frame tick or of the queued goto in progress: the clip,
\* the frame it was on and the frame asked for, the integer the script
\* passed (direct) or not, whether the children were cleared before any
\* frame ran, the frames run for their display tags only, the frame scripts
\* run, in order, and whether the processing has ended
NoLog ==
    [op |-> "", clip |-> "", from |-> 0, target |-> 0, direct |-> FALSE,
     n |-> 0, cleared |-> FALSE, passed |-> {}, actions |-> <<>>,
     done |-> FALSE]

total_frames(t, c) ==
    IF c = "root" THEN t.movie.root_total ELSE t.movie.child_total

\* The root holds the clip "1" as a child
has_child(t) == t.movie.child_total > 0 /\ 1 \in t.display

\* MovieClip::run_frame_internal on clip c
run_frame_internal(t, c, only_display_actions) ==
    LET clip == t.clips[c]
        advances == clip.current_frame < total_frames(t, c)
        f == IF advances THEN clip.current_frame + 1 ELSE 1
        kept == IF advances THEN t.display ELSE {}
        display == IF c = "root"
                   THEN ((IF f = 3 THEN kept \ {2} ELSE kept) \cup {f})
                   ELSE t.display
        moved == [t.clips EXCEPT ![c].current_frame = f]
        clips == IF c = "root" /\ f = 1 /\ t.movie.child_total > 0
                 THEN [moved EXCEPT !["1"] = new_with_data]
                 ELSE moved
    IN  [t EXCEPT
           !.clips = clips,
           !.display = display,
           !.log.passed = IF only_display_actions THEN @ \cup {f} ELSE @,
           !.log.actions = IF only_display_actions THEN @
                           ELSE Append(@, <<c, f>>)]

\* DisplayObjectUpdate::run_frame of the root: its own frame, then the
\* frame of each child
run_frame(t) ==
    IF t.clips["root"].is_playing
    THEN LET t1 == run_frame_internal(t, "root", FALSE)
         IN  IF has_child(t1) /\ t1.clips["1"].is_playing
             THEN run_frame_internal(t1, "1", FALSE)
             ELSE t1
    ELSE t

\* MovieClip::goto_frame: the frame is queued with, as history, what the
\* script passed
MovieClip_goto_frame(t, c, frame, stop, direct, n) ==
    [t EXCEPT
       !.clips[c].goto_queue =
           Append(@, [frame |-> frame, direct |-> direct, n |-> n]),
       !.clips[c].is_playing = ~stop]

\* The argument of gotoAndPlay and gotoAndStop: an integer-valued number, a
\* number whole.frac with a fractional part, or a string, given as its
\* tokens
IntArg(n) == [kind |-> "int", n |-> n, text |-> <<>>]
FracArg(whole, frac) == [kind |-> "frac", n |-> whole, text |-> <<frac>>]
StringArg(text) == [kind |-> "string", n |-> 0, text |-> text]

Numerals == <<"0", "1", "2", "3", "4", "5", "6", "7", "8", "9">>
\* Value::coerce_to_string of a number whole.frac of one digit each
coerce_to_string(arg) ==
    IF arg.kind = "frac"
    THEN <<Numerals[arg.n + 1], ".", Numerals[arg.text[1] + 1]>>
    ELSE arg.text
\* str::parse of a frame: the number a numeral denotes
parse(text) ==
    IF \E i \in 1..Len(Numerals) : Numerals[i] = text
    THEN [ok |-> TRUE,
          value |-> (CHOOSE i \in 1..Len(Numerals) : Numerals[i] = text) - 1]
    ELSE [ok |-> FALSE, value |-> 0]

\* Activation::resolve_variable_path from the clip start: what precedes the
\* last "." or ":" names a child clip of start, what follows is the
\* name; a path without separator is a name in start itself
resolve_variable_path(t, start, path) ==
    IF Len(path) = 3 /\ path[2] \in {".", ":"}
    THEN IF start = "root" /\ path[1] = "1" /\ has_child(t)
         THEN [some |-> TRUE, clip |-> "1", name |-> path[3]]
         ELSE [some |-> FALSE, clip |-> "", name |-> ""]
    ELSE [some |-> TRUE, clip |-> start, name |-> path[1]]

\* i32::saturating_add of 1
saturating_add_one(a) == IF a = I32Max THEN I32Max ELSE a + 1
\* `frame as u16` of a positive i32
as_u16(frame) == frame % 65536

\* goto_frame, called by goto_and_play and goto_and_stop with scene offset
\* 0.  The movie has no frame labels.
goto_frame(movie_clip, arg, stop) ==
    LET resolved == resolve_variable_path(timeline, movie_clip,
                                          coerce_to_string(arg))
        parsed == parse(resolved.name)
        call_frame ==
            IF arg.kind = "int"
            THEN [some |-> TRUE, clip |-> movie_clip, frame |-> arg.n]
            ELSE IF resolved.some /\ parsed.ok
            THEN [some |-> TRUE, clip |-> resolved.clip,
                  frame |-> parsed.value]
            ELSE [some |-> FALSE, clip |-> "", frame |-> 0]
        frame == saturating_add_one(
                     wrapping_add(wrapping_sub(call_frame.frame, 1), 0))
    IN  /\ timeline' =
              IF call_frame.some /\ frame > 0
              THEN MovieClip_goto_frame(timeline, call_frame.clip,
                                        as_u16(frame), stop,
                                        arg.kind = "int", arg.n)
              ELSE timeline
        /\ time_last' = [op |-> IF stop THEN "gotoAndStop" ELSE "gotoAndPlay",
                         receiver |-> movie_clip, arg |-> arg]
        /\ UNCHANGED goto_pc

goto_and_play(movie_clip, arg) == goto_frame(movie_clip, arg, FALSE)
goto_and_stop(movie_clip, arg) == goto_frame(movie_clip, arg, TRUE)

NoTimeCall == [op |-> "", receiver |-> "", arg |-> IntArg(0)]
Idle == [phase |-> "idle", clip |-> "", i |-> 0, frame |-> 0]

\* The player's frame tick, first half: run_frame of the root
tick_run_frame ==
    /\ goto_pc.phase = "idle"
    /\ timeline' = run_frame([timeline EXCEPT !.log = [NoLog EXCEPT !.op = "tick"]])
    /\ goto_pc' = [goto_pc EXCEPT !.phase = "ran"]
    /\ time_last' = NoTimeCall

\* The frame tick, second half: run_post_frame of the root begins with its
\* run_goto_queue
run_post_frame ==
    /\ goto_pc.phase = "ran"
    /\ goto_pc' = [phase |-> "select", clip |-> "root", i |-> 0, frame |-> 0]
    /\ timeline' = [timeline EXCEPT !.log = NoLog]
    /\ time_last' = NoTimeCall

\* run_goto_queue, the head of the loop over the queue: the next frame is
\* taken, and for an earlier frame the clip is reset to blank
run_goto_queue_select ==
    LET c == goto_pc.clip
        clip == timeline.clips[c]
    IN  /\ goto_pc.phase = "select"
        /\ goto_pc.i < Len(clip.goto_queue)
        /\ LET queued == clip.goto_queue[goto_pc.i + 1]
               rewinds == ~(queued.frame >= clip.current_frame)
               log == [NoLog EXCEPT !.op = "goto", !.clip = c,
                                    !.from = clip.current_frame,
                                    !.target = queued.frame,
                                    !.direct = queued.direct, !.n = queued.n,
                                    !.cleared = rewinds]
           IN  /\ timeline' =
                     IF rewinds
                     THEN [timeline EXCEPT
                             !.log = log,
                             !.display = IF c = "root" THEN {} ELSE @,
                             !.clips[c].current_frame = 0]
                     ELSE [timeline EXCEPT !.log = log]
               /\ goto_pc' = [goto_pc EXCEPT !.phase = "advance",
                                             !.frame = queued.frame]
        /\ UNCHANGED time_last

\* run_goto_queue, one turn of `while self.current_frame + 1 < frame`
run_goto_queue_skip ==
    LET c == goto_pc.clip
    IN  /\ goto_pc.phase = "advance"
        /\ timeline.clips[c].current_frame + 1 < goto_pc.frame
        /\ timeline' = run_frame_internal(timeline, c, TRUE)
        /\ UNCHANGED <<goto_pc, time_last>>

\* run_goto_queue, the run_frame_internal(context, false) after the loop
run_goto_queue_land ==
    LET c == goto_pc.clip
        t1 == run_frame_internal(timeline, c, FALSE)
    IN  /\ goto_pc.phase = "advance"
        /\ ~(timeline.clips[c].current_frame + 1 < goto_pc.frame)
        /\ timeline' = [t1 EXCEPT !.log.done = TRUE]
        /\ goto_pc' = [goto_pc EXCEPT !.phase = "select", !.i = @ + 1]
        /\ UNCHANGED time_last

\* run_goto_queue, the end: the queue is cleared; run_post_frame goes on to
\* the children, and the tick ends after the last of them
run_goto_queue_clear ==
    LET c == goto_pc.clip
    IN  /\ goto_pc.phase = "select"
        /\ goto_pc.i = Len(timeline.clips[c].goto_queue)
        /\ timeline' = [timeline EXCEPT !.clips[c].goto_queue = <<>>]
        /\ goto_pc' = IF c = "root" /\ has_child(timeline)
                      THEN [phase |-> "select", clip |-> "1", i |-> 0,
                            frame |-> 0]
                      ELSE Idle
        /\ UNCHANGED time_last

\* The timeline of a movie of the given numbers of frames, as loaded: the
\* clips are as MovieClip::new_with_data makes them
Movie(root_total, child_total) ==
    [movie |-> [root_total |-> root_total, child_total |-> child_total],
     clips |-> [c \in {"root", "1"} |-> new_with_data],
     display |-> {},
     log |-> NoLog]

\* No movie is loaded
InitTime ==
    /\ timeline = Movie(0, 0)
    /\ goto_pc = [Idle EXCEPT !.phase = "none"]
    /\ time_last = NoTimeCall

\* A movie is loaded: its root clip is made with new_with_data
load_movie(root_total, child_total) ==
    /\ goto_pc.phase = "none"
    /\ timeline' = Movie(root_total, child_total)
    /\ goto_pc' = Idle
    /\ UNCHANGED time_last

\* The methods of MovieClip (core/src/movie_clip.rs) a script or the player
\* calls on clip c.  FrameNumber is u16: current_frame + 1 overflows on
\* frame 65535, where a build with overflow checks panics and a build
\* without them computes 0.
Panicked == [Idle EXCEPT !.phase = "panic"]
ApiCall(op, c, frame) == [op |-> op, receiver |-> c, arg |-> IntArg(frame)]

\* MovieClip::goto_frame
clip_goto_frame(c, frame, stop) ==
    /\ timeline' = MovieClip_goto_frame(timeline, c, frame, stop, TRUE, frame)
    /\ time_last' = ApiCall("goto_frame", c, frame)
    /\ UNCHANGED goto_pc

\* MovieClip::next_frame
next_frame(c) ==
    LET current_frame == timeline.clips[c].current_frame
        queues(frame) ==
            /\ timeline' = MovieClip_goto_frame(timeline, c, frame, TRUE,
                                                TRUE, frame)
            /\ UNCHANGED goto_pc
    IN /\ time_last' = ApiCall("next_frame", c, 0)
       /\ IF current_frame = U16Max
          THEN \/ goto_pc' = Panicked /\ UNCHANGED timeline
               \/ IF 0 <= total_frames(timeline, c) THEN queues(0)
                  ELSE UNCHANGED <<timeline, goto_pc>>
          ELSE IF current_frame + 1 <= total_frames(timeline, c)
          THEN queues(current_frame + 1)
          ELSE UNCHANGED <<timeline, goto_pc>>

\* MovieClip::prev_frame
prev_frame(c) ==
    /\ timeline' = IF timeline.clips[c].current_frame > 1
                   THEN MovieClip_goto_frame(timeline, c,
                            timeline.clips[c].current_frame - 1, TRUE, TRUE,
                            timeline.clips[c].current_frame - 1)
                   ELSE timeline
    /\ time_last' = ApiCall("prev_frame", c, 0)
    /\ UNCHANGED goto_pc

\* MovieClip::play and MovieClip::stop
play(c) ==
    /\ timeline' = [timeline EXCEPT !.clips[c].is_playing = TRUE]
    /\ time_last' = ApiCall("play", c, 0)
    /\ UNCHANGED goto_pc
stop(c) ==
    /\ timeline' = [timeline EXCEPT !.clips[c].is_playing = FALSE]
    /\ time_last' = ApiCall("stop", c, 0)
    /\ UNCHANGED goto_pc

(***************************************************************************)
(* The prototype methods of MovieClip as scripts reach them: through the   *)
(* closures of with_movie_clip, on a `this` that is a movie clip, another  *)
(* display object, or an object backed by no display object.               *)
(***************************************************************************)
ThisClip(name) == [kind |-> "clip", name |-> name]
ThisButton == [kind |-> "button", name |-> "button"]
ThisObject == [kind |-> "object", name |-> ""]

NoDrag == [some |-> FALSE, clip |-> "", lock_center |-> FALSE]
\* The record of a method call: the method, its `this`, whether the
\* built-in was called, the value returned when it was not, and the drag
\* target before the call
MethodCall(name, this, called) ==
    [name |-> name, this |-> this, called |-> called,
     ret |-> IF called THEN "" ELSE "undefined", dragged |-> drag_object]

InitProto ==
    /\ drag_object = NoDrag
    /\ method_last = [name |-> "", this |-> ThisObject, called |-> FALSE,
                      ret |-> "", dragged |-> NoDrag]

\* What the closure leaves alone when it does not call the built-in
allButMethodLast ==
    <<avm2Vars, listVars, drawVars, timeVars, drag_object, hostVars>>
\* What a built-in of the display list, reached through the closure, leaves
\* alone, and what a drawing built-in does
notListNorMethod ==
    <<avm2Vars, drawVars, timeVars, drag_object, hostVars>>
notDrawNorMethod ==
    <<avm2Vars, listVars, timeVars, drag_object, hostVars>>
notDrag == <<avm2Vars, listVars, drawVars, timeVars, hostVars>>

\* A faulty with_movie_clip: the built-in is called for every display object
with_movie_clip_any_display_object(name, this, fn) ==
    IF this.kind \in {"clip", "button"}
    THEN method_last' = MethodCall(name, this, TRUE) /\ fn
    ELSE /\ method_last' = MethodCall(name, this, FALSE)
         /\ UNCHANGED allButMethodLast

\* The closure with_movie_clip! makes for the built-in fn: fn is called when
\* `this` is a display object that is a movie clip, undefined is returned
\* otherwise
with_movie_clip(name, this, fn) ==
    IF this.kind = "clip"
    THEN method_last' = MethodCall(name, this, TRUE) /\ fn
    ELSE /\ method_last' = MethodCall(name, this, FALSE)
         /\ UNCHANGED allButMethodLast

\* The closure with_display_object! makes (display_object.rs): fn is called
\* when `this` is a display object
with_display_object(name, this, fn) ==
    IF this.kind \in {"clip", "button"}
    THEN method_last' = MethodCall(name, this, TRUE) /\ fn
    ELSE /\ method_last' = MethodCall(name, this, FALSE)
         /\ UNCHANGED allButMethodLast

\* crate::avm1::start_drag: the display object becomes the drag target
avm1_start_drag(display_object, lock_center) ==
    drag_object' = [some |-> TRUE, clip |-> display_object,
                    lock_center |-> lock_center]

\* start_drag
start_drag(movie_clip, lock_center) == avm1_start_drag(movie_clip, lock_center)

\* A faulty stop_drag: only the clip being dragged can stop the drag
stop_drag_of_dragged(movie_clip) ==
    drag_object' = IF drag_object.some /\ drag_object.clip = movie_clip
                   THEN NoDrag ELSE drag_object

\* stop_drag: whichever clip it is called on
stop_drag(movie_clip) == drag_object' = NoDrag

(***************************************************************************)
(* The Date object of the AVM2 globals: DateAdjustment and the setters.    *)
(***************************************************************************)
\* Value::coerce_to_number of the values used here: undefined is NaN, a
\* number is itself
coerce_to_number(value) == IF value.t = "undefined" THEN NaN ELSE value
\* f64::is_finite
is_finite(x) == x.t = "num"

\* args.get(i): Some(&args[i]) when the call has an argument i, else None
Missing == [some |-> FALSE, value |-> Undefined]
Given(value) == [some |-> TRUE, value |-> value]
args_get(args, i) == IF i < Len(args) THEN Given(args[i + 1]) ELSE Missing

\* A field of DateAdjustment, Option<Option<f64>>: None, or Some(Some(x));
\* Some(None) is never different from None (flatten, check_value)
Unspecified == [spec |-> FALSE, value |-> NaN]
Specified(x) == [spec |-> TRUE, value |-> x]

\* DateAdjustment::new
DateAdjustment_new ==
    [year |-> Unspecified, month |-> Unspecified, day |-> Unspecified,
     hour |-> Unspecified, minute |-> Unspecified, second |-> Unspecified,
     millisecond |-> Unspecified, ignore_next |-> FALSE]

\* A faulty field method: an argument that is present is recorded, and the
\* chain resumes, whatever was missing before it
DateAdjustment_field_resumes(adj, field, value) ==
    IF value.some
    THEN [adj EXCEPT ![field] = Specified(coerce_to_number(value.value)),
                     !.ignore_next = FALSE]
    ELSE [adj EXCEPT !.ignore_next = TRUE]

\* DateAdjustment::year, month, day, hour, minute, second, millisecond: the
\* seven methods differ by the field they write only
DateAdjustment_field(adj, field, value) ==
    IF ~adj.ignore_next
    THEN IF value.some
         THEN [adj EXCEPT ![field] = Specified(coerce_to_number(value.value))]
         ELSE [adj EXCEPT ![field] = Unspecified, !.ignore_next = TRUE]
    ELSE adj

\* The chain of field methods a setter runs: what each call was given and
\* the adjustment it left
RECURSIVE DateAdjustment_chain(_, _, _)
DateAdjustment_chain(adj, fields, options) ==
    IF fields = <<>> THEN <<>>
    ELSE LET next == DateAdjustment_field(adj, Head(fields), Head(options))
         IN <<[field |-> Head(fields), given |-> Head(options),
               adj |-> next]>>
            \o DateAdjustment_chain(next, Tail(fields), Tail(options))

\* Option<i64> and Option<DateTime>
NoneValue == [some |-> FALSE, v |-> 0]
SomeValue(v) == [some |-> TRUE, v |-> v]

\* A faulty check_value: a value that is not finite is cast like any other
check_value_casts(specified, current) ==
    IF specified.spec
    THEN SomeValue(IF is_finite(specified.value) THEN specified.value.v ELSE 0)
    ELSE SomeValue(current)

\* DateAdjustment::check_value
check_value(specified, current) ==
    IF specified.spec /\ is_finite(specified.value)
    THEN SomeValue(specified.value.v)
    ELSE IF specified.spec THEN NoneValue
    ELSE SomeValue(current)

\* A faulty check_mapped_value, in the same way
check_mapped_value_casts(specified, current) ==
    IF specified.spec
    THEN SomeValue(IF is_finite(specified.value)
                   THEN specified.value.v % 12 ELSE 0)
    ELSE SomeValue(current)

\* DateAdjustment::check_mapped_value with the map of calculate,
\* |v| v.rem_euclid(12)
check_mapped_value(specified, current) ==
    IF specified.spec /\ is_finite(specified.value)
    THEN SomeValue(specified.value.v % 12)
    ELSE IF specified.spec THEN NoneValue
    ELSE SomeValue(current)

\* chrono: the days of a month of the proleptic Gregorian calendar
is_leap_year(y) == y % 4 = 0 /\ (y % 100 # 0 \/ y % 400 = 0)
days_in_month(y, month0) ==
    IF month0 = 1 THEN (IF is_leap_year(y) THEN 29 ELSE 28)
    ELSE IF month0 \in {3, 5, 8, 10} THEN 30 ELSE 31

\* chrono: the date `days` days after the first of a month
RECURSIVE ymd_plus_days(_, _, _)
ymd_plus_days(y, month0, days) ==
    IF days < 0
    THEN LET py == IF month0 = 0 THEN y - 1 ELSE y
             pm == IF month0 = 0 THEN 11 ELSE month0 - 1
         IN ymd_plus_days(py, pm, days + days_in_month(py, pm))
    ELSE IF days >= days_in_month(y, month0)
    THEN ymd_plus_days(IF month0 = 11 THEN y + 1 ELSE y,
                       IF month0 = 11 THEN 0 ELSE month0 + 1,
                       days - days_in_month(y, month0))
    ELSE [year |-> y, month0 |-> month0, day |-> days + 1]

\* chrono: ymd_opt(year, month0 + 1, 1).and_hms_opt(0, 0, 0) plus the
\* duration of calculate, in a time zone of offset zero
checked_add_signed(y, month0, d, h, mi, sec, ms) ==
    LET s2 == sec + (ms \div 1000)
        m2 == mi + (s2 \div 60)
        h2 == h + (m2 \div 60)
        ymd == ymd_plus_days(y, month0, (d - 1) + (h2 \div 24))
    IN [year |-> ymd.year, month0 |-> ymd.month0, day |-> ymd.day,
        hour |-> h2 % 24, minute |-> m2 % 60, second |-> s2 % 60,
        millisecond |-> ms % 1000]

\* DateAdjustment::calculate; the month that is not finite ends the
\* calculation before its remainder is used
calculate(adj, current) ==
    LET month_rem == (IF adj.month.spec /\ is_finite(adj.month.value)
                      THEN adj.month.value.v ELSE 0) \div 12
        month == check_mapped_value(adj.month, current.month0)
        y == check_value(adj.year, current.year)
        d == check_value(adj.day, current.day)
        h == check_value(adj.hour, current.hour)
        mi == check_value(adj.minute, current.minute)
        sec == check_value(adj.second, current.second)
        ms == check_value(adj.millisecond, current.millisecond)
    IN IF month.some /\ y.some /\ d.some /\ h.some /\ mi.some /\ sec.some
          /\ ms.some
       THEN SomeValue(checked_add_signed(y.v + month_rem, month.v, d.v, h.v,
                                         mi.v, sec.v, ms.v))
       ELSE NoneValue

\* A faulty apply: the adjustment of an invalid date starts from the epoch
apply_from_epoch(adj, object) ==
    LET current == IF object.some THEN object.v
                   ELSE checked_add_signed(1970, 0, 1, 0, 0, 0, 0)
        date == calculate(adj, current)
    IN [date_time |-> date,
        ret |-> IF date.some THEN [t |-> "timestamp", v |-> date.v]
                ELSE NaN]

\* DateAdjustment::apply: the new date_time of the object, and the number
\* returned, the timestamp of the new date or NaN
apply(adj, object) ==
    LET date == IF object.some THEN calculate(adj, object.v) ELSE NoneValue
    IN [date_time |-> date,
        ret |-> IF date.some THEN [t |-> "timestamp", v |-> date.v]
                ELSE NaN]

NoDateCall == [setter |-> "", args |-> <<>>, chain |-> <<>>, ret |-> NaN,
               before |-> NoneValue]
\* A setter: the chain over the arguments of the call, then apply
date_setter(name, fields, args) ==
    LET chain == DateAdjustment_chain(DateAdjustment_new, fields,
                     [i \in 1..Len(fields) |-> args_get(args, i - 1)])
        applied == apply(chain[Len(chain)].adj, date_time)
    IN /\ date_time' = applied.date_time
       /\ date_last' = [setter |-> name, args |-> args, chain |-> chain,
                        ret |-> applied.ret, before |-> date_time]

\* set_date, set_month, set_full_year
set_date(args) == date_setter("setDate", <<"day">>, args)
set_month(args) == date_setter("setMonth", <<"month", "day">>, args)
set_full_year(args) ==
    date_setter("setFullYear", <<"year", "month", "day">>, args)

\* set_time; Utc.timestamp_millis counts from the first of January 1970
set_time(args) ==
    LET new_time == coerce_to_number(IF Len(args) > 0 THEN args[1]
                                     ELSE Undefined)
        time == IF is_finite(new_time)
                THEN SomeValue(checked_add_signed(1970, 0, 1, 0, 0, 0,
                                                  new_time.v))
                ELSE NoneValue
    IN /\ date_time' = time
       /\ date_last' = [setter |-> "setTime", args |-> args, chain |-> <<>>,
                        ret |-> IF time.some
                                THEN [t |-> "timestamp", v |-> time.v]
                                ELSE NaN,
                        before |-> date_time]

\* The chain of set_full_year over any options, a later one present after
\* a missing one included; nothing is applied
adjust(options) ==
    /\ date_last' = [setter |-> "adjust", args |-> <<>>,
                     chain |-> DateAdjustment_chain(DateAdjustment_new,
                                   <<"year", "month", "day">>, options),
                     ret |-> NaN, before |-> date_time]
    /\ UNCHANGED date_time

\* new Date(2024, 5, 15): instance_init over the same chain
InitDate ==
    /\ date_time = SomeValue(checked_add_signed(2024, 5, 15, 0, 0, 0, 0))
    /\ date_last = NoDateCall

(***************************************************************************)
(* XMLIDMapObject: a script object tied to the ID map of an XML document.  *)
(***************************************************************************)
\* ScriptObject, the base: its own properties in the order they were made.
\* ScriptObject::set on an object with no prototype: the value of an own
\* property is replaced, a new property is added
ScriptObject_set(base, name, value) ==
    IF \E i \in DOMAIN base : base[i].name = name
    THEN [i \in DOMAIN base |->
             IF base[i].name = name THEN [base[i] EXCEPT !.value = value]
             ELSE base[i]]
    ELSE Append(base, [name |-> name, value |-> value])
\* ScriptObject::has_own_property, get_local and get_keys
ScriptObject_has_own_property(base, name) ==
    \E i \in DOMAIN base : base[i].name = name
ScriptObject_get_local(base, name) ==
    IF ScriptObject_has_own_property(base, name)
    THEN base[CHOOSE i \in DOMAIN base : base[i].name = name].value
    ELSE Undefined
ScriptObject_get_keys(base) == [i \in DOMAIN base |-> base[i].name]

\* XMLDocument::get_node_by_id: Some(node) when a node has the id
get_node_by_id(document, name) == name \in document
\* The script object of the node of an id
NodeObject(name) == [t |-> "xml_node", v |-> name]

NoIdmapCall == [op |-> "", name |-> "", ret |-> Undefined, keys |-> <<>>]
\* XMLIDMapObject::from_xml_document: a new base object and the document
from_xml_document(xml_doc) ==
    /\ idmap' = [base |-> <<>>, document |-> xml_doc]
    /\ idmap_last' = [NoIdmapCall EXCEPT !.op = "from_xml_document"]

\* XMLIDMapObject::get_local
get_local(name) ==
    /\ idmap_last' =
           [NoIdmapCall EXCEPT
               !.op = "get_local", !.name = name,
               !.ret = IF get_node_by_id(idmap.document, name)
                       THEN NodeObject(name)
                       ELSE ScriptObject_get_local(idmap.base, name)]
    /\ UNCHANGED idmap

\* XMLIDMapObject::set
idmap_set(name, value) ==
    /\ idmap' = [idmap EXCEPT !.base = ScriptObject_set(@, name, value)]
    /\ idmap_last' = [NoIdmapCall EXCEPT !.op = "set", !.name = name]

\* XMLIDMapObject::has_own_property
has_own_property(name) ==
    /\ idmap_last' =
           [NoIdmapCall EXCEPT
               !.op = "has_own_property", !.name = name,
               !.ret = Bool(\/ get_node_by_id(idmap.document, name)
                            \/ ScriptObject_has_own_property(idmap.base,
                                                             name))]
    /\ UNCHANGED idmap

\* The sequences that list every element of a set once
Orderings(S) ==
    {order \in [1..Cardinality(S) -> S] :
        \A i, j \in 1..Cardinality(S) : i # j => order[i] # order[j]}

\* XMLIDMapObject::get_keys: the keys of the base, then the node ids in the
\* order XMLDocument::get_node_ids gives them, which is any
get_keys ==
    /\ \E node_ids \in Orderings(idmap.document) :
           idmap_last' =
               [NoIdmapCall EXCEPT
                   !.op = "get_keys",
                   !.keys = ScriptObject_get_keys(idmap.base) \o node_ids]
    /\ UNCHANGED idmap

InitIdmap ==
    /\ idmap = [base |-> <<>>, document |-> {}]
    /\ idmap_last = NoIdmapCall

(***************************************************************************)
(* ContextMenuItem: the constructor and copy.                              *)
(***************************************************************************)
String(text) == [t |-> "string", v |-> text]
\* Value::coerce_to_string and Value::as_bool of the values used here
avm1_coerce_to_string(value) ==
    CASE value.t = "string" -> value
      [] value.t = "number" -> String(Numerals[value.v + 1])
      [] value.t = "bool" -> String(IF value.v = 1 THEN "true" ELSE "false")
      [] OTHER -> String(value.t)
as_bool(value) == value.t = "bool" /\ value.v = 1
\* Value::coerce_to_object: the object, or a new one for a primitive
coerce_to_object(value) ==
    IF value.t = "object" THEN value ELSE [t |-> "object", v |-> 0]

\* A new object: every property reads as undefined
NewObject ==
    [caption |-> Undefined, onSelect |-> Undefined,
     separatorBefore |-> Undefined, enabled |-> Undefined,
     visible |-> Undefined, separator_before |-> Undefined]
\* args.get(i).unwrap_or(default)
arg_or(args, i, default) == IF i < Len(args) THEN args[i + 1] ELSE default

\* constructor: the properties of `this` once it has returned
constructor(this, args) ==
    LET caption == avm1_coerce_to_string(arg_or(args, 0, Undefined))
        separator_before == as_bool(arg_or(args, 2, Bool(FALSE)))
        enabled == as_bool(arg_or(args, 3, Bool(TRUE)))
        visible == as_bool(arg_or(args, 4, Bool(TRUE)))
    IN [this EXCEPT
           !.caption = caption,
           !.onSelect = IF Len(args) > 1 THEN coerce_to_object(args[2])
                        ELSE @,
           !.separatorBefore = Bool(separator_before),
           !.enabled = Bool(enabled),
           !.visible = Bool(visible)]

\* A faulty copy: the property is read under its canonical name
copy_canonical(this) ==
    constructor(NewObject,
                <<avm1_coerce_to_string(this.caption),
                  coerce_to_object(this.onSelect),
                  Bool(as_bool(this.separatorBefore)),
                  Bool(as_bool(this.enabled)), Bool(as_bool(this.visible))>>)

\* copy: the item the constructor makes of what copy reads
copy(this) ==
    LET caption == avm1_coerce_to_string(this.caption)
        callback == coerce_to_object(this.onSelect)
        enabled == as_bool(this.enabled)
        separator_before == as_bool(this.separator_before)
        visible == as_bool(this.visible)
    IN constructor(NewObject,
                   <<caption, callback, Bool(separator_before),
                     Bool(enabled), Bool(visible)>>)

NoMenuCall == [op |-> "", item |-> NewObject]
\* new ContextMenuItem(args...)
new_item(args) ==
    /\ menu_item' = constructor(NewObject, args)
    /\ menu_last' = [NoMenuCall EXCEPT !.op = "new"]
\* A script sets a property of the item
item_set(name, value) ==
    /\ menu_item' = [menu_item EXCEPT ![name] = value]
    /\ menu_last' = [NoMenuCall EXCEPT !.op = "set"]
\* item.copy()
item_copy ==
    /\ menu_last' = [op |-> "copy", item |-> copy(menu_item)]
    /\ UNCHANGED menu_item

\* new ContextMenuItem()
InitMenu ==
    /\ menu_item = constructor(NewObject, <<>>)
    /\ menu_last = NoMenuCall

(***************************************************************************)
(* avm1::read::Reader: the decoder of a stream of AVM1 actions.            *)
(***************************************************************************)
\* OpCode::from_u8 for the opcodes of the model: End 0x00, Play 0x06,
\* GotoFrame 0x81; any other byte is no opcode
OpCode_from_u8(opcode) ==
    CASE opcode = 0 -> "End"
      [] opcode = 6 -> "Play"
      [] opcode = 129 -> "GotoFrame"
      [] OTHER -> "None"

\* The result of a read: Err, or Ok with the value read and the position
\* of the reader after it
ReadErr(pos) == [ok |-> FALSE, v |-> 0, pos |-> pos]
ReadOk(v, pos) == [ok |-> TRUE, v |-> v, pos |-> pos]

\* SwfRead::read_u8 and read_u16 (little-endian) on the bytes before
\* `limit`, the end of the stream or of a Take
read_u8(bytes, pos, limit) ==
    IF pos + 1 <= limit THEN ReadOk(bytes[pos + 1], pos + 1)
    ELSE ReadErr(limit)
read_u16(bytes, pos, limit) ==
    IF pos + 2 <= limit
    THEN ReadOk(bytes[pos + 1] + 256 * bytes[pos + 2], pos + 2)
    ELSE ReadErr(limit)

\* Reader::read_opcode_and_length
read_opcode_and_length(bytes, pos) ==
    LET opcode == read_u8(bytes, pos, Len(bytes))
        length == read_u16(bytes, opcode.pos, Len(bytes))
    IN IF ~opcode.ok THEN ReadErr(opcode.pos)
       ELSE IF opcode.v >= 128
       THEN IF length.ok
            THEN ReadOk([opcode |-> opcode.v, length |-> length.v],
                        length.pos)
            ELSE ReadErr(length.pos)
       ELSE ReadOk([opcode |-> opcode.v, length |-> 0], opcode.pos)

\* The smaller of two numbers
Min(a, b) == IF a < b THEN a ELSE b

NoAction == [name |-> "None", opcode |-> 0, frame |-> 0, data |-> <<>>]
\* Reader::read_action: Ok(None) is ReadOk of NoAction.  action_reader is
\* a Take of `length` bytes over the same reader: what it reads moves the
\* reader, what it leaves unread stays in the stream
read_action(bytes, pos) ==
    LET header == read_opcode_and_length(bytes, pos)
        limit == Min(header.pos + header.v.length, Len(bytes))
        name == OpCode_from_u8(header.v.opcode)
        frame == read_u16(bytes, header.pos, limit)
    IN IF ~header.ok THEN ReadErr(header.pos)
       ELSE IF name = "End" THEN ReadOk(NoAction, header.pos)
       ELSE IF name = "Play"
       THEN ReadOk([NoAction EXCEPT !.name = "Play"], header.pos)
       ELSE IF name = "GotoFrame"
       THEN IF frame.ok
            THEN ReadOk([NoAction EXCEPT !.name = "GotoFrame",
                                         !.frame = frame.v], frame.pos)
            ELSE ReadErr(frame.pos)
       ELSE ReadOk([NoAction EXCEPT
                       !.name = "Unknown", !.opcode = header.v.opcode,
                       !.data = SubSeq(bytes, header.pos + 1, limit)],
                   limit)

\* Reader::read_action_list: the actions read and where each began
RECURSIVE read_action_list(_, _, _)
read_action_list(bytes, pos, actions) ==
    LET action == read_action(bytes, pos)
    IN IF ~action.ok THEN ReadErr(action.pos)
       ELSE IF action.v = NoAction THEN ReadOk(actions, action.pos)
       ELSE read_action_list(bytes, action.pos,
                Append(actions, [start |-> pos, action |-> action.v]))

NoRead == [op |-> "", start |-> 0, res |-> ReadErr(0)]
\* Reader::new over the bytes of a stream, once
Reader_new(bytes) ==
    /\ read_last = NoRead
    /\ reader' = [bytes |-> bytes, pos |-> 0]
    /\ read_last' = [NoRead EXCEPT !.op = "new"]
\* A call of read_action
call_read_action ==
    LET res == read_action(reader.bytes, reader.pos)
    IN /\ reader' = [reader EXCEPT !.pos = res.pos]
       /\ read_last' = [op |-> "read_action", start |-> reader.pos,
                        res |-> res]
\* A call of read_action_list
call_read_action_list ==
    LET res == read_action_list(reader.bytes, reader.pos, <<>>)
    IN /\ reader' = [reader EXCEPT !.pos = res.pos]
       /\ read_last' = [op |-> "read_action_list", start |-> reader.pos,
                        res |-> res]

InitRead ==
    /\ reader = [bytes |-> <<>>, pos |-> 0]
    /\ read_last = NoRead

(***************************************************************************)
(* XMLNode::children: the double-ended iterator over the children of a     *)
(* node, as xml::tests::double_ended_children uses it.                     *)
(***************************************************************************)
\* A call returns Option<XMLNode>: NoneValue, or SomeValue of a child
NoIterCall == [op |-> "", ret |-> NoneValue, front |-> <<>>, back |-> <<>>]

\* XMLNode::children of a node of n children, the child at position i
\* being i: the iterator has yielded nothing and its ends are the ends of
\* the list
children_of(n) ==
    /\ child_iter' = [children |-> [i \in 1..n |-> i], index |-> 0,
                      back_index |-> n]
    /\ iter_last' = [NoIterCall EXCEPT !.op = "children"]

\* A faulty next_back: the back end goes on past the front end
next_back_past_front ==
    LET some == child_iter.back_index > 0
        ret == IF some
               THEN SomeValue(child_iter.children[child_iter.back_index])
               ELSE NoneValue
    IN /\ child_iter' = IF some
                        THEN [child_iter EXCEPT !.back_index = @ - 1]
                        ELSE child_iter
       /\ iter_last' = [iter_last EXCEPT
                           !.op = "next_back", !.ret = ret,
                           !.back = IF some THEN Append(@, ret.v) ELSE @]

\* Iterator::next: the child at the front end, while the ends have not met
next ==
    LET some == child_iter.index < child_iter.back_index
        ret == IF some
               THEN SomeValue(child_iter.children[child_iter.index + 1])
               ELSE NoneValue
    IN /\ child_iter' = IF some THEN [child_iter EXCEPT !.index = @ + 1]
                        ELSE child_iter
       /\ iter_last' = [iter_last EXCEPT
                           !.op = "next", !.ret = ret,
                           !.front = IF some THEN Append(@, ret.v) ELSE @]

\* DoubleEndedIterator::next_back: the child at the back end, while the
\* ends have not met
next_back ==
    LET some == child_iter.index < child_iter.back_index
        ret == IF some
               THEN SomeValue(child_iter.children[child_iter.back_index])
               ELSE NoneValue
    IN /\ child_iter' = IF some
                        THEN [child_iter EXCEPT !.back_index = @ - 1]
                        ELSE child_iter
       /\ iter_last' = [iter_last EXCEPT
                           !.op = "next_back", !.ret = ret,
                           !.back = IF some THEN Append(@, ret.v) ELSE @]

InitIter ==
    /\ child_iter = [children |-> <<>>, index |-> 0, back_index |-> 0]
    /\ iter_last = NoIterCall

(***************************************************************************)
(* The locals of an AVM1 activation as form values, and getURL.            *)
(***************************************************************************)
\* A faulty locals_into_form_values: a value that is no string is sent as
\* the name of its type
locals_into_form_values_untyped(scope_locals) ==
    [k \in DOMAIN scope_locals |->
        IF scope_locals[k].t = "string" THEN scope_locals[k].v
        ELSE scope_locals[k].t]

\* Activation::locals_into_form_values: an entry for each key of the
\* locals, the value of the local coerced to a string
locals_into_form_values(scope_locals) ==
    [k \in DOMAIN scope_locals |->
        avm1_coerce_to_string(scope_locals[k]).v]

NoForm == [op |-> "", navigated |-> FALSE, url |-> "", method |-> "",
           vars |-> <<>>]
\* my_locals.set(name, value)
locals_set(name, value) ==
    /\ locals' = (name :> value) @@ locals
    /\ form_last' = [NoForm EXCEPT !.op = "set"]

\* A call of locals_into_form_values on the activation
call_locals_into_form_values ==
    /\ form_last' = [NoForm EXCEPT !.op = "locals_into_form_values",
                                   !.vars = locals_into_form_values(locals)]
    /\ UNCHANGED locals

\* fscommand::parse: Some for a URL that begins with FSCommand:
fscommand_parse(url) == url = "FSCommand:quit"

\* get_url: nothing without arguments, the fscommand handled, or the
\* navigator asked to go to the URL, with the locals when the third
\* argument is the string GET or POST
get_url(args) ==
    LET url == avm1_coerce_to_string(args[1]).v
        method == IF Len(args) > 2 /\ args[3] \in {String("GET"),
                                                   String("POST")}
                  THEN args[3].v ELSE ""
    IN /\ form_last' =
              IF Len(args) = 0 \/ fscommand_parse(url)
              THEN [NoForm EXCEPT !.op = "getURL"]
              ELSE [op |-> "getURL", navigated |-> TRUE, url |-> url,
                    method |-> method,
                    vars |-> IF method # ""
                             THEN locals_into_form_values(locals)
                             ELSE <<>>]
       /\ UNCHANGED locals

\* Activation::from_nothing: no local
InitForm ==
    /\ locals = <<>>
    /\ form_last = NoForm

(***************************************************************************)
(* Buttons (display_object/button.rs).  The variable button holds the      *)
(* ButtonData of one button, with the parent of its base, and the action   *)
(* queue of the update context.  The library holds the characters 1 and 2. *)
(***************************************************************************)
\* The ButtonActions of from_swf_tag: one for every condition of every
\* action of the tag, in the order of the tag
RECURSIVE button_actions(_)
button_actions(actions) ==
    IF actions = <<>> THEN <<>>
    ELSE LET action == Head(actions)
         IN  [i \in 1..Len(action.conditions) |->
                 [action_data |-> action.action_data,
                  condition |-> action.conditions[i],
                  key_code |-> action.key_code]]
             \o button_actions(Tail(actions))

\* A display object that has no parent
NoParent == [some |-> FALSE, v |-> ""]

\* Button::from_swf_tag
Button_from_swf_tag(swf_button) ==
    [records |-> swf_button.records,
     actions |-> button_actions(swf_button.actions),
     state |-> "Up",
     children |-> <<>>,
     initialized |-> FALSE,
     parent |-> NoParent,
     action_queue |-> <<>>]

\* Library::instantiate_display_object is Ok for these characters
LibraryCharacters == {1, 2}

\* Button::set_state: the state is stored and the children are replaced by
\* the records of the state that the library can instantiate
Button_set_state(b, state) ==
    LET shown == {r \in b.records :
                     state \in r.states /\ r.id \in LibraryCharacters}
    IN  [b EXCEPT
           !.state = state,
           !.children = [depth \in {r.depth : r \in shown} |->
                            (CHOOSE r \in shown : r.depth = depth).id]]

\* A faulty run_actions: the actions are queued on the button's parent
\* whether it has one or not
Button_run_actions_anywhere(b, condition, key_code) ==
    LET matching == SelectSeq(b.actions,
                        LAMBDA action : /\ action.condition = condition
                                        /\ action.key_code = key_code)
    IN  [b EXCEPT !.action_queue =
            @ \o [i \in 1..Len(matching) |->
                      [clip |-> b.parent.v,
                       action_data |-> matching[i].action_data]]]

\* Button::run_actions
Button_run_actions(b, condition, key_code) ==
    IF b.parent.some
    THEN LET matching == SelectSeq(b.actions,
                             LAMBDA action : /\ action.condition = condition
                                             /\ action.key_code = key_code)
         IN  [b EXCEPT !.action_queue =
                 @ \o [i \in 1..Len(matching) |->
                           [clip |-> b.parent.v,
                            action_data |-> matching[i].action_data]]]
    ELSE b

ButtonEvent(kind, key) == [kind |-> kind, key |-> key]
\* No button is made: the tag of a button without records and actions
NoButton == Button_from_swf_tag([records |-> {}, actions |-> <<>>])
NoButtonCall == [event |-> ButtonEvent("", 0), before |-> NoButton]

\* Button::handle_button_event
handle_button_event(event) ==
    LET cur_state == button.state
        keyed == IF event.kind = "KeyPress"
                 THEN Button_run_actions(button, "KeyPress",
                                         SomeValue(event.key))
                 ELSE button
        new_state == CASE event.kind = "RollOut" -> "Up"
                       [] event.kind = "RollOver" -> "Over"
                       [] event.kind = "Press" -> "Down"
                       [] event.kind = "Release" -> "Over"
                       [] event.kind = "KeyPress" -> cur_state
        ran == CASE cur_state = "Up" /\ new_state = "Over" ->
                        Button_run_actions(keyed, "IdleToOverUp", NoneValue)
                 [] cur_state = "Over" /\ new_state = "Up" ->
                        Button_run_actions(keyed, "OverUpToIdle", NoneValue)
                 [] cur_state = "Over" /\ new_state = "Down" ->
                        Button_run_actions(keyed, "OverUpToOverDown",
                                           NoneValue)
                 [] cur_state = "Down" /\ new_state = "Over" ->
                        Button_run_actions(keyed, "OverDownToOverUp",
                                           NoneValue)
                 [] OTHER -> keyed
    IN  /\ button' = Button_set_state(ran, new_state)
        /\ button_last' = [event |-> event, before |-> button]

\* The tag of the button is read
construct_button(swf_button) ==
    /\ button_last.event.kind = ""
    /\ button' = Button_from_swf_tag(swf_button)
    /\ button_last' = [event |-> ButtonEvent("from_swf_tag", 0),
                       before |-> button]

\* TDisplayObject::set_parent, when the button is placed on a clip
Button_set_parent(clip) ==
    /\ button_last.event.kind # ""
    /\ ~button.parent.some
    /\ button' = [button EXCEPT !.parent = SomeValue(clip)]
    /\ button_last' = [event |-> ButtonEvent("set_parent", 0),
                       before |-> button]

InitButton ==
    /\ button = NoButton
    /\ button_last = NoButtonCall
(***************************************************************************)
(* Text fields (display_object/edit_text.rs).  A text is a sequence of     *)
(* characters of one byte; every glyph of the font is one pixel wide and   *)
(* one pixel high.                                                         *)
(***************************************************************************)
NoBreakPoints == [some |-> FALSE, v |-> <<>>]
SomeBreakPoints(lbrk) == [some |-> TRUE, v |-> lbrk]

\* EditText::new: a dynamic text field of the given width
EditText_new(width) ==
    [text |-> <<>>,
     new_format |-> "default",
     is_multiline |-> FALSE,
     is_word_wrap |-> FALSE,
     cached_break_points |-> NoBreakPoints,
     width |-> width]

\* str::split('\n'): the pieces between the newlines, of which there is one
\* more than there are newlines
RECURSIVE split_newline(_, _)
split_newline(text, piece) ==
    IF text = <<>> THEN <<piece>>
    ELSE IF Head(text) = "\n"
    THEN <<piece>> \o split_newline(Tail(text), <<>>)
    ELSE split_newline(Tail(text), Append(piece, Head(text)))

\* Font::split_wrapped_lines: the indices, in the line, after a space that
\* ends a run of width or more pixels and is not the end of the line
RECURSIVE split_wrapped_lines(_, _, _, _)
split_wrapped_lines(natural_line, width, start, i) ==
    IF i >= Len(natural_line) THEN <<>>
    ELSE IF natural_line[i] = " " /\ i - start >= width
    THEN <<i>> \o split_wrapped_lines(natural_line, width, i, i + 1)
    ELSE split_wrapped_lines(natural_line, width, start, i + 1)

\* The loop of line_breaks over the natural lines
RECURSIVE line_breaks_from(_, _, _)
line_breaks_from(lines, break_base, line_width) ==
    IF lines = <<>> THEN <<>>
    ELSE LET natural_line == Head(lines)
             wrapped == split_wrapped_lines(natural_line, line_width, 0, 1)
         IN  (IF break_base # 0 THEN <<break_base>> ELSE <<>>)
             \o [k \in 1..Len(wrapped) |-> break_base + wrapped[k]]
             \o line_breaks_from(Tail(lines),
                                 break_base + Len(natural_line) + 1,
                                 line_width)

\* EditText::line_breaks, with a font in the library
line_breaks(e) ==
    IF e.is_multiline
    THEN line_breaks_from(split_newline(e.text, <<>>), 0, e.width)
    ELSE <<>>

NoTextCall == [op |-> "", lbrk |-> <<>>, size |-> <<0, 0>>]
TextCall(op) == [NoTextCall EXCEPT !.op = op]

\* A faulty set_text: the cache is kept
set_text_keeps_cache(text) ==
    /\ edit_text' = [edit_text EXCEPT !.text = text]
    /\ text_last' = TextCall("set_text")

\* EditText::set_text
set_text(text) ==
    /\ edit_text' = [edit_text EXCEPT !.cached_break_points = NoBreakPoints,
                                      !.text = text]
    /\ text_last' = TextCall("set_text")

\* EditText::set_new_text_format
set_new_text_format(tf) ==
    /\ edit_text' = [edit_text EXCEPT !.cached_break_points = NoBreakPoints,
                                      !.new_format = tf]
    /\ text_last' = TextCall("set_new_text_format")

\* EditText::set_multiline
set_multiline(is_multiline) ==
    /\ edit_text' = [edit_text EXCEPT !.cached_break_points = NoBreakPoints,
                                      !.is_multiline = is_multiline]
    /\ text_last' = TextCall("set_multiline")

\* EditText::set_word_wrap
set_word_wrap(is_word_wrap) ==
    /\ edit_text' = [edit_text EXCEPT !.cached_break_points = NoBreakPoints,
                                      !.is_word_wrap = is_word_wrap]
    /\ text_last' = TextCall("set_word_wrap")

\* EditText::line_breaks_cached: the break points returned
line_breaks_cached(e) ==
    IF e.cached_break_points.some
    THEN e.cached_break_points.v
    ELSE line_breaks(e)

\* The larger of two numbers
Larger(a, b) == IF a >= b THEN a ELSE b
\* The width of the widest of the chunks text[start..breakpoint] and of the
\* last chunk text[start..]
RECURSIVE widest_chunk(_, _, _)
widest_chunk(text, start, breakpoints) ==
    IF breakpoints = <<>> THEN Len(text) - start
    ELSE Larger(Head(breakpoints) - start,
                widest_chunk(text, Head(breakpoints), Tail(breakpoints)))

\* EditText::measure_text: the break points are taken from the cache or
\* computed and cached, and the chunks between them are measured
measure_text ==
    LET breakpoints == line_breaks_cached(edit_text)
    IN  /\ edit_text' = [edit_text EXCEPT
                            !.cached_break_points =
                                SomeBreakPoints(breakpoints)]
        /\ text_last' = [op |-> "measure_text", lbrk |-> breakpoints,
                         size |-> <<widest_chunk(edit_text.text, 0,
                                                 breakpoints),
                                    Len(breakpoints) + 1>>]

\* A dynamic text field, 2 pixels wide, as createTextField makes it
InitText ==
    /\ edit_text = EditText_new(2)
    /\ text_last = NoTextCall

vars == <<avm2Vars, clipVars, hostVars>>
Init ==
    /\ InitAvm2 /\ InitClip /\ InitDraw /\ InitTime /\ InitProto
    /\ InitDate /\ InitIdmap /\ InitMenu /\ InitRead
    /\ InitIter /\ InitForm /\ InitButton /\ InitText /\ InitSlot

(***************************************************************************)
(* The specifications.  Each runs one activation over the method bodies    *)
(* made of a family of instructions.                                       *)
(***************************************************************************)
RegisterIndices == 0..(MaxLocals + MaxParams + 1)

\* A method of one parameter and one local called on an object
ConstructPlain ==
    \E max_stack \in 1..MaxDeclaredStack :
        from_method(TRUE, 1, 1, max_stack, 0, 0, Sealed, <<Number(1)>>)

(***************************************************************************)
(* SpecEntry: every way of constructing the activation, then bodies that   *)
(* read the registers.                                                     *)
(***************************************************************************)
NextEntry ==
    \/ \E has_body \in BOOLEAN, num_locals \in 0..MaxLocals,
          num_params \in 0..MaxParams, this_obj \in {0, Sealed},
          arguments \in ArgLists :
            from_method(has_body, num_locals, num_params, MaxDeclaredStack,
                        0, 0, this_obj, arguments)
            /\ UNCHANGED <<clipVars, hostVars>>
    \/ \E has_body \in BOOLEAN, num_locals \in 0..MaxLocals :
            from_script(has_body, num_locals, MaxDeclaredStack, 0, Global)
            /\ UNCHANGED <<clipVars, hostVars>>
    \/ run_actions(TRUE) /\ UNCHANGED <<clipVars, hostVars>>
    \/ \E i \in RegisterIndices : op_get_local(i) /\ UNCHANGED <<clipVars, hostVars>>
    \/ op_pop /\ UNCHANGED <<clipVars, hostVars>>
    \/ op_return_void /\ UNCHANGED <<clipVars, hostVars>>

SpecEntry == Init /\ [][NextEntry]_vars

(***************************************************************************)
(* SpecStack: bodies made of the stack and register instructions.          *)
(***************************************************************************)
NextStack ==
    \/ ConstructPlain /\ UNCHANGED <<clipVars, hostVars>>
    \/ run_actions(TRUE) /\ UNCHANGED <<clipVars, hostVars>>
    \/ op_push_null /\ UNCHANGED <<clipVars, hostVars>>
    \/ op_push_undefined /\ UNCHANGED <<clipVars, hostVars>>
    \/ op_pop /\ UNCHANGED <<clipVars, hostVars>>
    \/ op_dup /\ UNCHANGED <<clipVars, hostVars>>
    \/ \E i \in RegisterIndices : op_get_local(i) /\ UNCHANGED <<clipVars, hostVars>>
    \/ \E i \in RegisterIndices : op_set_local(i) /\ UNCHANGED <<clipVars, hostVars>>
    \/ \E i \in RegisterIndices : op_kill(i) /\ UNCHANGED <<clipVars, hostVars>>
    \/ op_return_value /\ UNCHANGED <<clipVars, hostVars>>
    \/ op_return_void /\ UNCHANGED <<clipVars, hostVars>>

SpecStack == Init /\ [][NextStack]_vars

(***************************************************************************)
(* SpecLock: the frame lock and calls of run_actions on one frame.         *)
(***************************************************************************)
NextLock ==
    \/ ConstructPlain /\ UNCHANGED <<clipVars, hostVars>>
    \/ lock /\ UNCHANGED <<clipVars, hostVars>>
    \/ unlock_execution /\ UNCHANGED <<clipVars, hostVars>>
    \/ \E has_body \in BOOLEAN : run_actions(has_body)
            /\ UNCHANGED <<clipVars, hostVars>>
    \/ \E msg \in {"Unknown opcode!", "Parse error"} : read_op_fails(msg)
            /\ UNCHANGED <<clipVars, hostVars>>
    \/ unknown_op /\ UNCHANGED <<clipVars, hostVars>>
    \/ op_push_null /\ UNCHANGED <<clipVars, hostVars>>
    \/ op_pop /\ UNCHANGED <<clipVars, hostVars>>
    \/ op_return_void /\ UNCHANGED <<clipVars, hostVars>>

SpecLock == Init /\ [][NextLock]_vars

(***************************************************************************)
(* SpecScope: bodies made of the scope instructions, run in a method whose *)
(* function closed over the empty scope or over the global scope, or in a  *)
(* script initializer.                                                     *)
(***************************************************************************)
ConstructScoped ==
    \/ \E sc \in {0, 1} :
            from_method(TRUE, 0, 0, MaxDeclaredStack, MaxExtraScope, sc, Dyn,
                        <<>>)
    \/ from_script(TRUE, 0, MaxDeclaredStack, 0, Global)

NextScope ==
    \/ ConstructScoped /\ UNCHANGED <<clipVars, hostVars>>
    \/ act_state = "ready" /\ run_actions(TRUE) /\ UNCHANGED <<clipVars, hostVars>>
    \/ op_get_local(0) /\ UNCHANGED <<clipVars, hostVars>>
    \/ op_push_scope /\ UNCHANGED <<clipVars, hostVars>>
    \/ op_push_with /\ UNCHANGED <<clipVars, hostVars>>
    \/ op_pop_scope /\ UNCHANGED <<clipVars, hostVars>>
    \/ op_new_function(TRUE) /\ UNCHANGED <<clipVars, hostVars>>
    \/ op_new_function(FALSE) /\ UNCHANGED <<clipVars, hostVars>>
    \/ op_return_void /\ UNCHANGED <<clipVars, hostVars>>

SpecScope == Init /\ [][NextScope]_vars

(***************************************************************************)
(* SpecFind: bodies that look names up on the scope chain.  The method is  *)
(* run on a sealed or a dynamic receiver, and may push it as a scope.      *)
(***************************************************************************)
NextFind ==
    \/ \E this_obj \in {Sealed, Dyn}, sc \in {0, 1} :
            from_method(TRUE, 0, 0, MaxDeclaredStack, MaxExtraScope, sc,
                        this_obj, <<>>) /\ UNCHANGED <<clipVars, hostVars>>
    \/ act_state = "ready" /\ run_actions(TRUE) /\ UNCHANGED <<clipVars, hostVars>>
    \/ op_get_local(0) /\ UNCHANGED <<clipVars, hostVars>>
    \/ op_push_scope /\ UNCHANGED <<clipVars, hostVars>>
    \/ op_push_with /\ UNCHANGED <<clipVars, hostVars>>
    \/ \E index \in MultinameIndices, overflow_checks \in BOOLEAN :
            op_find_property(index, overflow_checks)
            /\ UNCHANGED <<clipVars, hostVars>>
    \/ \E index \in MultinameIndices, overflow_checks \in BOOLEAN :
            op_find_prop_strict(index, overflow_checks)
            /\ UNCHANGED <<clipVars, hostVars>>
    \/ \E register_index \in {0, 1} : op_kill(register_index)
            /\ UNCHANGED <<clipVars, hostVars>>
    \/ \E msg \in {"Unknown opcode!", "Parse error"} : read_op_fails(msg)
            /\ UNCHANGED <<clipVars, hostVars>>
    \/ unknown_op /\ UNCHANGED <<clipVars, hostVars>>
    \/ op_return_void /\ UNCHANGED <<clipVars, hostVars>>

SpecFind == Init /\ [][NextFind]_vars

(***************************************************************************)
(* SpecProp: bodies that set and initialise properties of the receiver.    *)
(***************************************************************************)
NextProp ==
    \/ \E this_obj \in {Sealed, Dyn} :
            from_method(TRUE, 0, 0, MaxDeclaredStack, 0, 1, this_obj, <<>>)
            /\ UNCHANGED <<clipVars, hostVars>>
    \/ run_actions(TRUE) /\ UNCHANGED <<clipVars, hostVars>>
    \/ op_get_local(0) /\ UNCHANGED <<clipVars, hostVars>>
    \/ op_push_null /\ UNCHANGED <<clipVars, hostVars>>
    \/ op_pop /\ UNCHANGED <<clipVars, hostVars>>
    \/ \E index \in MultinameIndices, overflow_checks \in BOOLEAN :
            op_set_property(index, overflow_checks)
            /\ UNCHANGED <<clipVars, hostVars>>
    \/ \E index \in MultinameIndices, overflow_checks \in BOOLEAN :
            op_init_property(index, overflow_checks)
            /\ UNCHANGED <<clipVars, hostVars>>
    \/ op_return_void /\ UNCHANGED <<clipVars, hostVars>>

SpecProp == Init /\ [][NextProp]_vars

(***************************************************************************)
(* SpecHasNext: bodies that enumerate the receiver with hasnext2; register *)
(* 0 holds the receiver and register 1 the index the caller passed.        *)
(***************************************************************************)
IndexPool == {Number(0), Number(1), Number(2), NumberU32Max}

NextHasNext ==
    \/ \E this_obj \in ObjectIds, index \in IndexPool :
            from_method(TRUE, 0, 1, MaxDeclaredStack, 0, 0, this_obj,
                        <<index>>) /\ UNCHANGED <<clipVars, hostVars>>
    \/ act_state = "ready" /\ run_actions(TRUE) /\ UNCHANGED <<clipVars, hostVars>>
    \/ \E object_register \in 0..2, index_register \in 0..2,
          overflow_checks \in BOOLEAN :
            op_has_next_2(object_register, index_register, overflow_checks)
            /\ UNCHANGED <<clipVars, hostVars>>
    \/ op_pop /\ UNCHANGED <<clipVars, hostVars>>
    \/ op_return_void /\ UNCHANGED <<clipVars, hostVars>>

SpecHasNext == Init /\ [][NextHasNext]_vars

(***************************************************************************)
(* SpecClip: calls of attachMovie on one clip.                             *)
(***************************************************************************)
\* The depths a script passes: the ends of the 32-bit range and the values
\* around 0, around the bias and around the maximal depth
DepthPool ==
    {I32Min, -AVM_DEPTH_BIAS - 1, -AVM_DEPTH_BIAS, -1, 0, 1,
     AVM_MAX_DEPTH - AVM_DEPTH_BIAS, AVM_MAX_DEPTH - AVM_DEPTH_BIAS + 1,
     AVM_MAX_DEPTH, AVM_MAX_DEPTH + 1, I32Max - AVM_DEPTH_BIAS + 1, I32Max}

NextClip ==
    \/ \E nargs \in 2..4, export_name \in {"symbol", "missing"},
          new_instance_name \in {"a", "b"}, d \in DepthPool :
            attach_movie(nargs, export_name, new_instance_name, d)
            /\ UNCHANGED notListVars

SpecClip == Init /\ [][NextClip]_vars

(***************************************************************************)
(* SpecDepth: the built-ins that create, remove and move children, called  *)
(* on a clip that holds at most MaxChildren children.                      *)
(***************************************************************************)
\* The script depths passed: around the bias, around the limit of
\* removeMovieClip, around the maximal depth and at the ends of 32 bits
CreateDepthPool ==
    {-AVM_DEPTH_BIAS - 1, -1, 0, 3, RemoveDepthLimit - AVM_DEPTH_BIAS - 1,
     RemoveDepthLimit - AVM_DEPTH_BIAS, AVM_MAX_DEPTH - AVM_DEPTH_BIAS,
     AVM_MAX_DEPTH - AVM_DEPTH_BIAS + 1, I32Max - AVM_DEPTH_BIAS + 1, I32Max}
\* The display objects a built-in may be called on: a child of the clip, or
\* an object at a stored depth in or out of range without a movie-clip parent
Receivers ==
    {Receiver("clip", depth) : depth \in DOMAIN children}
    \cup {Receiver(parent, depth) :
              parent \in {"none", "button"},
              depth \in {0, AVM_DEPTH_BIAS, AVM_MAX_DEPTH + 1}}
SwapArgs ==
    {NumberArg(n) : n \in {-AVM_DEPTH_BIAS - 1, 0, 3,
                           AVM_MAX_DEPTH - AVM_DEPTH_BIAS + 1, I32Max}}
    \cup {TargetArg("clip", depth) : depth \in DOMAIN children}
    \cup {TargetArg("other", AVM_DEPTH_BIAS), TargetArg("none", AVM_DEPTH_BIAS),
          InvalidArg}
SwfVersions == {5, 6, 8}
HasRoom == Cardinality(DOMAIN children) < MaxChildren

NextDepth ==
    \/ \E nargs \in 2..3, export_name \in {"symbol", "missing"},
          d \in CreateDepthPool :
            HasRoom /\ attach_movie(nargs, export_name, "a", d)
            /\ UNCHANGED notListVars
    \/ \E nargs \in 1..2, d \in CreateDepthPool :
            HasRoom /\ create_empty_movie_clip(nargs, "a", d)
            /\ UNCHANGED notListVars
    \/ \E nargs \in {1, 6}, d \in CreateDepthPool, swf_version \in SwfVersions :
            HasRoom /\ create_text_field(nargs, "b", d, swf_version)
            /\ UNCHANGED notListVars
    \/ \E nargs \in 1..2, receiver \in Receivers, d \in CreateDepthPool,
          instantiable \in BOOLEAN :
            HasRoom
            /\ duplicate_movie_clip(nargs, receiver, "b", d, instantiable)
            /\ UNCHANGED notListVars
    \/ \E receiver \in Receivers, swf_version \in SwfVersions :
            get_depth(receiver, swf_version) /\ UNCHANGED notListVars
    \/ \E receiver \in Receivers :
            remove_movie_clip(receiver) /\ UNCHANGED notListVars
    \/ \E receiver \in Receivers, arg \in SwapArgs :
            swap_depths(receiver, arg) /\ UNCHANGED notListVars

SpecDepth == Init /\ [][NextDepth]_vars

(***************************************************************************)
(* SpecRemove: removeMovieClip on clips created at the ends of its range.  *)
(***************************************************************************)
\* Script depths that give the stored depths 16383, 16384, 2,130,706,415
\* and 2,130,706,416, and one that wraps to a negative stored depth
RemoveDepthPool ==
    {-1, 0, RemoveDepthLimit - AVM_DEPTH_BIAS - 1,
     RemoveDepthLimit - AVM_DEPTH_BIAS, I32Max}

NextRemove ==
    \/ \E nargs \in 1..2, d \in RemoveDepthPool :
            HasRoom /\ create_empty_movie_clip(nargs, "a", d)
            /\ UNCHANGED notListVars
    \/ \E receiver \in Receivers :
            remove_movie_clip(receiver) /\ UNCHANGED notListVars

SpecRemove == Init /\ [][NextRemove]_vars

(***************************************************************************)
(* SpecSwap: swapDepths among children of two names.                       *)
(***************************************************************************)
SwapDepthPool == {0, 3, I32Max}
SwapNumbers == {-AVM_DEPTH_BIAS - 1, 0, 3, 7,
                AVM_MAX_DEPTH - AVM_DEPTH_BIAS + 1, I32Max}
SwapArgPool ==
    {NumberArg(n) : n \in SwapNumbers}
    \cup {TargetArg("clip", depth) : depth \in DOMAIN children}
    \cup {TargetArg("other", AVM_DEPTH_BIAS), TargetArg("none", AVM_DEPTH_BIAS),
          InvalidArg}

NextSwap ==
    \/ \E d \in SwapDepthPool :
            HasRoom /\ create_empty_movie_clip(2, "a", d)
            /\ UNCHANGED notListVars
    \/ \E d \in SwapDepthPool :
            HasRoom /\ create_text_field(6, "b", d, 8)
            /\ UNCHANGED notListVars
    \/ \E receiver \in Receivers, arg \in SwapArgPool :
            swap_depths(receiver, arg) /\ UNCHANGED notListVars

SpecSwap == Init /\ [][NextSwap]_vars

(***************************************************************************)
(* SpecFill: beginFill and beginGradientFill on one clip.                  *)
(***************************************************************************)
\* The numbers of arguments passed: none, all up to ratios, up to the
\* matrix, and up to the focal point
GradientArgCounts == {0, 4, 5, 8}
Methods == {"linear", "radial", "conic"}

NextFill ==
    \/ \E nargs \in 0..2 :
            begin_fill(nargs) /\ UNCHANGED <<line_style_set, notDrawVars>>
    \/ \E nargs \in GradientArgCounts, method \in Methods,
          colors \in 0..MaxArrayLen, alphas \in 0..MaxArrayLen,
          ratios \in 0..MaxArrayLen :
            /\ nargs = 0 => (method = "linear" /\ colors = 0 /\ alphas = 0
                             /\ ratios = 0)
            /\ begin_gradient_fill(nargs, method, colors, alphas, ratios)
            /\ UNCHANGED <<line_style_set, notDrawVars>>

SpecFill == Init /\ [][NextFill]_vars

(***************************************************************************)
(* SpecTime: frame ticks of a movie whose scripts call gotoAndPlay and     *)
(* gotoAndStop.                                                            *)
(***************************************************************************)
\* The arguments passed: integers from the 32-bit minimum to past the end
\* of the timeline and past 16 bits, numbers with a fractional part, paths
GotoArgs ==
    {IntArg(n) : n \in {I32Min, 0, 1, 2, MaxFrames + 1, 65537}}
    \cup {FracArg(1, 2), FracArg(0, 5)}
    \cup {StringArg(<<"1", ":", "1">>), StringArg(<<"x">>)}
\* The clips a script can call a built-in on
TimeReceivers == {"root"} \cup (IF has_child(timeline) THEN {"1"} ELSE {})
\* The calls of one frame's scripts fit the queues
QueueRoom ==
    \A c \in {"root", "1"} :
        Len(timeline.clips[c].goto_queue) < MaxQueue

NextTime ==
    \/ \E root_total \in 1..MaxFrames, child_total \in 0..MaxFrames :
            load_movie(root_total, child_total) /\ UNCHANGED notTimeVars
    \/ tick_run_frame /\ UNCHANGED notTimeVars
    \/ \E movie_clip \in TimeReceivers, arg \in GotoArgs :
            /\ goto_pc.phase = "ran"
            /\ QueueRoom
            /\ goto_and_play(movie_clip, arg)
            /\ UNCHANGED notTimeVars
    \/ \E movie_clip \in TimeReceivers, arg \in GotoArgs :
            /\ goto_pc.phase = "ran"
            /\ QueueRoom
            /\ goto_and_stop(movie_clip, arg)
            /\ UNCHANGED notTimeVars
    \/ run_post_frame /\ UNCHANGED notTimeVars
    \/ run_goto_queue_select /\ UNCHANGED notTimeVars
    \/ run_goto_queue_skip /\ UNCHANGED notTimeVars
    \/ run_goto_queue_land /\ UNCHANGED notTimeVars
    \/ run_goto_queue_clear /\ UNCHANGED notTimeVars

SpecTime == Init /\ [][NextTime]_vars

(***************************************************************************)
(* SpecLine: lineStyle and beginFill on one clip.                          *)
(***************************************************************************)
\* The widths passed: whole numbers of pixels from below 0 to above 255,
\* the infinities and NaN
WidthPool ==
    {F64(n) : n \in (-MaxWidthExcess..3) \cup (253..(255 + MaxWidthExcess))}
    \cup {Infinity, NegInfinity, NaN}

NextLine ==
    \/ \E nargs \in 0..3, width \in WidthPool :
            /\ nargs = 0 => width = NaN
            /\ line_style(nargs, width)
            /\ UNCHANGED <<fill_style, notDrawVars>>
    \/ \E nargs \in 0..2 :
            begin_fill(nargs) /\ UNCHANGED <<line_style_set, notDrawVars>>

SpecLine == Init /\ [][NextLine]_vars

(***************************************************************************)
(* SpecProto: scripts call methods of MovieClip.prototype on clips, on a   *)
(* button and on an object that is no display object.                      *)
(***************************************************************************)
ThisPool == {ThisClip("a"), ThisClip("b"), ThisButton, ThisObject}
ProtoDepthPool == {0, 3}

NextProto ==
    \/ \E this \in ThisPool, lock_center \in BOOLEAN :
            with_movie_clip("startDrag", this,
                start_drag(this.name, lock_center) /\ UNCHANGED notDrag)
    \/ \E this \in ThisPool :
            with_movie_clip("stopDrag", this,
                stop_drag(this.name) /\ UNCHANGED notDrag)
    \/ \E this \in ThisPool, d \in ProtoDepthPool :
            with_movie_clip("attachMovie", this,
                /\ HasRoom
                /\ attach_movie(3, "symbol", "a", d)
                /\ UNCHANGED notListNorMethod)
    \/ \E this \in ThisPool, d \in ProtoDepthPool :
            with_movie_clip("removeMovieClip", this,
                /\ remove_movie_clip(Receiver("clip", d + AVM_DEPTH_BIAS))
                /\ UNCHANGED notListNorMethod)
    \/ \E this \in ThisPool, nargs \in 0..1 :
            with_movie_clip("beginFill", this,
                /\ begin_fill(nargs)
                /\ UNCHANGED <<line_style_set, notDrawNorMethod>>)
    \/ \E this \in ThisPool, d \in ProtoDepthPool :
            with_display_object("getDepth", this,
                /\ get_depth(Receiver(this.kind, d + AVM_DEPTH_BIAS), 6)
                /\ UNCHANGED notListNorMethod)

SpecProto == Init /\ [][NextProto]_vars

(***************************************************************************)
(* Properties.                                                             *)
(***************************************************************************)
Register(i) == local_registers[i + 1]

\* C1: while run_actions executes a method body, after every executed
\* instruction the operand stack depth is at most the body's max_stack.
C1_StackWithinMaxStack ==
    act_state \in {"running", "finished"} => Len(stack) <= body.max_stack

\* C6: a call of run_actions made while the frame is being executed, or
\* while it is locked, fails with "Attempted to execute the same frame
\* twice" and starts no execution, so that never two executions of the
\* frame are in progress.
C6_NoReentry ==
    /\ readers <= 1
    /\ (last.op = "run_actions" /\ (last.busy \/ last.locked)) =>
           /\ last.res = "Err"
           /\ result = Err("Attempted to execute the same frame twice")

\* C9: on entry to a method activation with n declared parameters register
\* 0 holds `this` (null without a receiver), register i for 1 <= i <= n
\* holds the i-th passed argument or undefined when fewer than i were
\* passed, and every remaining register holds undefined; on entry to a
\* script initializer register 0 holds the global object.
C9_RegistersOnEntry ==
    act_state = "ready" =>
        /\ entry.kind = "method" =>
            /\ Len(local_registers) = entry.num_locals + entry.num_params + 1
            /\ Register(0) = (IF entry.this = 0 THEN Null
                              ELSE ObjectValue(entry.this))
            /\ \A i \in 1..entry.num_params :
                   Register(i) = (IF i <= Len(entry.args) THEN entry.args[i]
                                  ELSE Undefined)
            /\ \A i \in (entry.num_params + 1)..(Len(local_registers) - 1) :
                   Register(i) = Undefined
        /\ entry.kind = "script" =>
            /\ Len(local_registers) = entry.num_locals + 1
            /\ Register(0) = ObjectValue(Global)
            /\ \A i \in 1..(Len(local_registers) - 1) :
                   Register(i) = Undefined

\* C9 witness: a method of two parameters and one local entered without a
\* receiver and with a single argument.
C9_EntryWitness ==
    /\ act_state = "ready"
    /\ entry.kind = "method"
    /\ entry.this = 0
    /\ entry.num_params = 2
    /\ entry.num_locals = 1
    /\ Len(entry.args) = 1
    /\ local_registers = <<Null, Number(1), Undefined, Undefined>>

\* C2: in every activation the scope stack depth stays between the body's
\* init_scope_depth and its max_scope_depth whatever pushscope, pushwith
\* and popscope instructions are executed.
C2_ScopeDepthWithinBounds ==
    act_state \in {"running", "finished"} =>
        /\ body.init_scope_depth <= ScopeDepth(scope)
        /\ ScopeDepth(scope) <= body.max_scope_depth

\* C3: when no scope resolves the multiname, findpropstrict returns an
\* error and pushes nothing, and findproperty pushes the global object.
C3_FindUnresolved ==
    [][ /\ (last'.op = "findpropstrict" /\ last'.note = 0) =>
              (last'.res = "Err" /\ stack' = stack)
        /\ (last'.op = "findproperty" /\ last'.note = 0) =>
              (last'.res = "Continue"
               /\ stack' = Append(stack, ObjectValue(Global))) ]_vars

\* C4: setproperty and initproperty add a property only to an object of a
\* dynamic class, and then under the public namespace; an instance of a
\* sealed class never gains a property.
C4_SealedGainsNoProperty ==
    \A o \in ObjectIds :
        /\ ~is_dynamic(o) => props[o] = {}
        /\ \A q \in props[o] : q[1] = PublicNs

\* C5: whatever the method body and the constant pool hold, run_actions
\* ends with a value or an Err and never with a panic.
C5_NeverPanics == act_state # "panic"

\* C8: a popscope that directly follows a pushscope or pushwith leaves the
\* scope of the activation as it was before the push, the empty scope
\* included, and the chain a function object captured reads the same after
\* every later instruction.
C8_PushPopIdentity ==
    /\ (last.op = "popscope" /\ last.undo # NoUndo) =>
           Snapshot(scopes, scope) = last.undo
    /\ captured # NoCapture =>
           ScopeChain(scopes, captured.cell) = captured.chain

\* C8 witness: a push on a non-empty scope was undone by the popscope after
\* it, while a function object holds a chain longer than the current one,
\* captured before an earlier pop.
C8_PopWitness ==
    /\ last.op = "popscope"
    /\ last.undo # NoUndo
    /\ last.undo.cell > 0
    /\ captured # NoCapture
    /\ Len(captured.chain) > ScopeDepth(scope)

\* Whether object o has an enumerant numbered one more than the index
HasEnumerantAfter(o, index) ==
    index.t = "number" /\ index.v + 1 >= 1 /\ index.v + 1 <= enumerant_count(o)

RECURSIVE NearestEnumerableProto(_)
\* The nearest prototype of o that has an enumerant numbered 1, 0 if none
NearestEnumerableProto(o) ==
    IF proto(o) = 0 THEN 0
    ELSE IF enumerant_count(proto(o)) >= 1 THEN proto(o)
    ELSE NearestEnumerableProto(proto(o))

\* hasnext2 was run on object register r_o holding an object and index
\* register r_i holding a number
HasNext2Ran(r_o, r_i) ==
    /\ r_o # r_i
    /\ last'.op = "hasnext2"
    /\ last'.note = RegPair(r_o, r_i)
    /\ is_object(local_registers[r_o + 1])
    /\ is_number(local_registers[r_i + 1])

\* What hasnext2 is to write back and push
HasNext2Wrote(r_o, r_i) ==
    LET o == local_registers[r_o + 1].v
        i == local_registers[r_i + 1]
        p == NearestEnumerableProto(o)
    IN  /\ last'.res = "Continue"
        /\ IF HasEnumerantAfter(o, i)
           THEN /\ local_registers'[r_o + 1] = ObjectValue(o)
                /\ local_registers'[r_i + 1] = Number(i.v + 1)
                /\ stack' = Append(stack, Bool(TRUE))
           ELSE IF p # 0
           THEN /\ local_registers'[r_o + 1] = ObjectValue(p)
                /\ local_registers'[r_i + 1] = Number(1)
                /\ stack' = Append(stack, Bool(TRUE))
           ELSE /\ local_registers'[r_o + 1] = Null
                /\ local_registers'[r_i + 1] = Number(0)
                /\ stack' = Append(stack, Bool(FALSE))

\* C7: hasnext2 on an object register and an index register holding i ends
\* normally; it writes back the object and i + 1 and pushes true when the
\* object has an enumerant i + 1, else the nearest prototype with an
\* enumerant 1, index 1 and true, else null, index 0 and false.
C7_HasNext2 ==
    [][ \A r_o, r_i \in 0..1 :
            HasNext2Ran(r_o, r_i) => HasNext2Wrote(r_o, r_i) ]_vars

\* The same statement for the steps of hasnext2 that do not panic, which
\* are all its steps in a build without overflow checks.
HasNext2UnlessPanic ==
    [][ \A r_o, r_i \in 0..1 :
            (HasNext2Ran(r_o, r_i) /\ last'.res # "Panic") =>
                HasNext2Wrote(r_o, r_i) ]_vars

InsertedChild ==
    \/ /\ clip_last'.op \in {"attachMovie", "createEmptyMovieClip",
                             "duplicateMovieClip"}
       /\ clip_last'.ret = "object"
    \/ clip_last'.op = "createTextField"

\* C11: whenever attachMovie, createEmptyMovieClip, duplicateMovieClip or
\* createTextField inserts a child for the 32-bit script depth d, the child
\* is stored at d + 16384 taken as a mathematical integer (so d + 16384 is a
\* 32-bit integer and no wrap-around happened), and that stored depth lies
\* in the valid range: it is not negative and corresponds to a script depth
\* of at most 2,130,706,428.
C11_StoredDepthIsBiasedDepth ==
    [][ InsertedChild =>
        /\ clip_last'.depth <= I32Max - AVM_DEPTH_BIAS
        /\ clip_last'.depth >= -AVM_DEPTH_BIAS
        /\ clip_last'.depth <= AVM_MAX_DEPTH
        /\ (clip_last'.depth + AVM_DEPTH_BIAS) \in DOMAIN children'
        /\ \A s \in DOMAIN children' :
              (s \notin DOMAIN children \/ children'[s] # children[s]) =>
                  s = clip_last'.depth + AVM_DEPTH_BIAS ]_vars

\* C17: removeMovieClip removes the clip from its parent if and only if the
\* clip's stored depth is in [16384, 2,130,706,416) and its parent is a
\* movie clip; in every other case the display list is unchanged.
C17_RemoveMovieClipRange ==
    [][ clip_last'.op = "removeMovieClip" =>
        LET receiver == clip_last'.receiver
        IN  IF /\ receiver.depth >= 16384
               /\ receiver.depth < 2130706416
               /\ receiver.parent = "clip"
            THEN /\ receiver.depth \in DOMAIN children
                 /\ DOMAIN children' = DOMAIN children \ {receiver.depth}
                 /\ \A d \in DOMAIN children' : children'[d] = children[d]
            ELSE children' = children ]_vars

\* C17 witness: removeMovieClip was called on the child at stored depth
\* 16384, the lowest depth of the range, and the child is gone while another
\* child stays.
C17_RemovedLowestWitness ==
    /\ clip_last.op = "removeMovieClip"
    /\ clip_last.receiver = Receiver("clip", AVM_DEPTH_BIAS)
    /\ AVM_DEPTH_BIAS \notin DOMAIN children
    /\ DOMAIN children # {}

\* The depth the argument of the swapDepths call of this step resolves to: a
\* number n resolves to n + 16384 (out of range when that is no 32-bit
\* integer), a target to its stored depth
SwapOutOfRange ==
    IF clip_last'.target = ""
    THEN \/ clip_last'.depth < -AVM_DEPTH_BIAS
         \/ clip_last'.depth > AVM_MAX_DEPTH - AVM_DEPTH_BIAS
    ELSE clip_last'.depth < 0 \/ clip_last'.depth > AVM_MAX_DEPTH
SwapResolved ==
    IF clip_last'.target = "" THEN clip_last'.depth + AVM_DEPTH_BIAS
    ELSE clip_last'.depth
\* The four cases C18 names, in their order
SwapNamedNoOp ==
    \/ /\ clip_last'.target # ""
       /\ clip_last'.target # clip_last'.receiver.parent
    \/ SwapOutOfRange
    \/ SwapResolved = clip_last'.receiver.depth
    \/ clip_last'.receiver.parent = "none"
\* The receiver went to the resolved depth, and a child that was there took
\* the depth the receiver had
SwapMoved ==
    LET from == clip_last'.receiver.depth
        to == SwapResolved
    IN  /\ clip_last'.value = to
        /\ clip_last'.receiver.parent = "clip" =>
              /\ to \in DOMAIN children'
              /\ children'[to] = children[from]
              /\ IF to \in DOMAIN children
                 THEN from \in DOMAIN children'
                      /\ children'[from] = children[to]
                 ELSE from \notin DOMAIN children'
              /\ \A d \in (DOMAIN children \cup DOMAIN children') \ {from, to} :
                    /\ d \in DOMAIN children /\ d \in DOMAIN children'
                    /\ children'[d] = children[d]
SwapUnmoved ==
    /\ children' = children
    /\ clip_last'.value = clip_last'.receiver.depth

\* C18 as stated: swapDepths with a number or a display object leaves every
\* depth unchanged when the target has another parent than the receiver,
\* when the resolved depth is the receiver's depth, when the biased depth is
\* outside [0, 2,130,706,428] or when the receiver has no parent; in every
\* other case the receiver moves to the resolved depth.
C18_SwapDepthsAsStated ==
    [][ (clip_last'.op = "swapDepths" /\ clip_last'.target # "invalid") =>
        IF SwapNamedNoOp THEN SwapUnmoved ELSE SwapMoved ]_vars

\* C18 amended: swapDepths leaves every depth unchanged in the four cases
\* named, and also when the parent of the receiver is not a movie clip and
\* when the argument resolves to no display object; only otherwise does it
\* move the receiver to the resolved depth.
C18_SwapDepthsMovieClipParent ==
    [][ clip_last'.op = "swapDepths" =>
        IF \/ clip_last'.target = "invalid"
           \/ clip_last'.receiver.parent # "clip"
           \/ SwapNamedNoOp
        THEN SwapUnmoved ELSE SwapMoved ]_vars

\* C18 witness: swapDepths moved the receiver to a depth that another child
\* held, and the two children changed places.
C18_SwappedWitness ==
    /\ clip_last.op = "swapDepths"
    /\ clip_last.receiver.parent = "clip"
    /\ clip_last.value # clip_last.receiver.depth
    /\ {clip_last.value, clip_last.receiver.depth} \subseteq DOMAIN children
    /\ children[clip_last.value] # children[clip_last.receiver.depth]

\* C19: for every 32-bit depth d, createEmptyMovieClip(name, d) creates a
\* clip whose internal depth is d + 16384 and whose getDepth() returns d in
\* SWF version 6 or later; below version 6 getDepth() returns undefined.
C19_GetDepthOfCreatedClip ==
    [][ /\ ( /\ clip_last'.op = "createEmptyMovieClip"
             /\ clip_last'.ret = "object" ) =>
            /\ clip_last'.depth <= I32Max - AVM_DEPTH_BIAS
            /\ (clip_last'.depth + AVM_DEPTH_BIAS) \in DOMAIN children'
            /\ \A swf_version \in SwfVersions :
                  swf_version >= 6 =>
                      get_depth_value(clip_last'.depth + AVM_DEPTH_BIAS,
                                      swf_version)
                          = [ret |-> "number", value |-> clip_last'.depth]
        /\ (clip_last'.op = "getDepth" /\ clip_last'.swf_version < 6) =>
               clip_last'.ret = "undefined" ]_vars

\* The beginGradientFill call of this step got arrays that do not all have
\* the same length
UnequalArrays ==
    /\ draw_last'.op = "beginGradientFill"
    /\ draw_last'.nargs >= 4
    /\ \/ draw_last'.colors # draw_last'.alphas
       \/ draw_last'.colors # draw_last'.ratios
       \/ draw_last'.alphas # draw_last'.ratios

\* C20 as stated: beginGradientFill whose colors, alphas and ratios arrays
\* do not all have the same length leaves the fill style of the clip exactly
\* as it was and returns undefined.
C20_UnequalArraysKeepFill ==
    [][ UnequalArrays =>
        (fill_style' = fill_style /\ draw_last'.ret = "undefined") ]_vars

\* C20 amended: beginGradientFill called with a matrix (five arguments or
\* more) whose colors, alphas and ratios arrays do not all have the same
\* length leaves the fill style exactly as it was and returns undefined.
C20_UnequalArraysWithMatrixKeepFill ==
    [][ (UnequalArrays /\ draw_last'.nargs >= 5) =>
        (fill_style' = fill_style /\ draw_last'.ret = "undefined") ]_vars

\* C20 witness: a clip with a colour fill got beginGradientFill("linear",
\* ...) with a matrix and arrays of different lengths, and kept its fill.
C20_KeptColorFillWitness ==
    /\ draw_last.op = "beginGradientFill"
    /\ draw_last.nargs >= 5
    /\ draw_last.method = "linear"
    /\ draw_last.colors # draw_last.alphas
    /\ draw_last.warned
    /\ fill_style = FillStyle("color", 0)

\* The step is a call of gotoAndPlay or gotoAndStop
GotoCalled == time_last'.op \in {"gotoAndPlay", "gotoAndStop"}
\* No clip has another current frame, playing state or queue of gotos
NoClipTouched == timeline'.clips = timeline.clips

\* C12: when the queued goto of gotoAndPlay(n) or gotoAndStop(n) with an
\* integer n greater than the clip's total_frames has been processed, the
\* clip is on its last frame: current_frame = total_frames.
C12_GotoPastEndLandsOnLastFrame ==
    ( /\ timeline.log.op = "goto"
      /\ timeline.log.done
      /\ timeline.log.direct
      /\ timeline.log.n > total_frames(timeline, timeline.log.clip) ) =>
        timeline.clips[timeline.log.clip].current_frame
            = total_frames(timeline, timeline.log.clip)

\* C13: gotoAndPlay(n) and gotoAndStop(n) with an integer n <= 0, down to
\* the 32-bit minimum, issue no frame change: no goto is queued, and the
\* current frame and the playing state of the clip stay as they were.
C13_GotoNonPositiveIsNoOp ==
    [][ (GotoCalled /\ time_last'.arg.kind = "int" /\ time_last'.arg.n <= 0)
        => NoClipTouched ]_vars

\* C14: gotoAndPlay and gotoAndStop with a number that has a fractional
\* part are ignored: no goto is queued for any clip, and the current frame
\* and the playing state of every clip stay as they were.
C14_FractionalGotoIgnored ==
    [][ (GotoCalled /\ time_last'.arg.kind = "frac") => NoClipTouched ]_vars

\* C15: when a queued goto has been processed, a goto to an earlier frame
\* cleared the children and rewound the clip before any frame ran, every
\* frame passed through ran its display tags only, and the one frame script
\* that ran is that of the target frame.
C15_GotoRunsTargetScriptOnly ==
    (timeline.log.op = "goto" /\ timeline.log.done) =>
        /\ timeline.log.target < timeline.log.from => timeline.log.cleared
        /\ timeline.log.target \notin timeline.log.passed
        /\ timeline.log.actions
               = << <<timeline.log.clip, timeline.log.target>> >>

\* What C15 says holds of every goto to another frame of the clip: to a
\* frame in 1..total_frames that is not the current frame.
GotoWithinTimelineRunsTargetScriptOnly ==
    ( /\ timeline.log.op = "goto"
      /\ timeline.log.done
      /\ timeline.log.target \in
             1..total_frames(timeline, timeline.log.clip)
      /\ timeline.log.target # timeline.log.from ) =>
        /\ timeline.log.target < timeline.log.from => timeline.log.cleared
        /\ timeline.log.passed \subseteq 1..(timeline.log.target - 1)
        /\ timeline.log.actions
               = << <<timeline.log.clip, timeline.log.target>> >>

\* C16: in a frame tick in which the root and its child both ran their
\* frame actions, the actions of the child ran before those of the root.
C16_ChildActionsBeforeParent ==
    timeline.log.op = "tick" =>
        \A i, j \in 1..Len(timeline.log.actions) :
            ( /\ timeline.log.actions[i][1] = "root"
              /\ timeline.log.actions[j][1] = "1" ) => j < i

\* C21: for every number w passed to lineStyle as the width, the line width
\* stored is w clamped to [0, 255] pixels (20 twips to the pixel): w itself
\* when 0 <= w <= 255, 255 pixels when w > 255 and 0 when w < 0.
C21_LineWidthClamped ==
    [][ ( /\ draw_last'.op = "lineStyle"
          /\ draw_last'.nargs >= 1
          /\ draw_last'.width.t # "nan" ) =>
        LET w == draw_last'.width
        IN  /\ line_style_set'.some
            /\ line_style_set'.width >= 0
            /\ line_style_set'.width <= 20 * 255
            /\ (w.t = "inf" \/ (w.t = "num" /\ w.v > 255)) =>
                   line_style_set'.width = 20 * 255
            /\ (w.t = "-inf" \/ (w.t = "num" /\ w.v < 0)) =>
                   line_style_set'.width = 0
            /\ (w.t = "num" /\ w.v >= 0 /\ w.v <= 255) =>
                   line_style_set'.width = 20 * w.v ]_vars

\* C21 witness: lineStyle(300) was called and the width stored is that of
\* 255 pixels.
C21_Clamped300Witness ==
    /\ draw_last.op = "lineStyle"
    /\ draw_last.width = F64(300)
    /\ line_style_set = LineStyle(20 * 255)

\* C22: there is at most one drag target; startDrag on a clip makes that
\* clip the target in place of any other, and stopDrag on any clip, the
\* dragged one or not, leaves no drag target.
C22_SingleDragTarget ==
    [][ /\ (method_last'.name = "startDrag" /\ method_last'.called) =>
            (drag_object'.some /\ drag_object'.clip = method_last'.this.name)
        /\ (method_last'.name = "stopDrag" /\ method_last'.called) =>
            ~drag_object'.some ]_vars

\* C22 witness: stopDrag was called on clip "b" while clip "a" was being
\* dragged, and nothing is dragged.
C22_StoppedByOtherClipWitness ==
    /\ method_last.name = "stopDrag"
    /\ method_last.this = ThisClip("b")
    /\ method_last.dragged.some
    /\ method_last.dragged.clip = "a"
    /\ ~drag_object.some

\* The step is a call of a method of MovieClip.prototype on a `this` that
\* is not backed by a movie clip, and it did nothing and returned undefined
NotAMovieClip == method_last'.name # "" /\ method_last'.this.kind # "clip"
SilentNoOp ==
    /\ method_last'.ret = "undefined"
    /\ ~method_last'.called
    /\ UNCHANGED <<children, drag_object, fill_style, line_style_set,
                   timeline>>

\* C23 as stated: every method of MovieClip.prototype called on a `this`
\* that is not backed by a movie clip returns undefined and changes neither
\* the display list nor the drag target nor the state of any clip.
C23_NotAMovieClipIsNoOp ==
    [][ NotAMovieClip => SilentNoOp ]_vars

\* C23 amended: that holds of the methods MovieClip.prototype defines
\* itself; getDepth, which it shares with every display object, does so
\* only on a `this` backed by no display object, and on a display object
\* that is no movie clip returns its depth, changing nothing.
C23_NotADisplayObjectIsNoOp ==
    [][ NotAMovieClip =>
        IF method_last'.name = "getDepth" /\ method_last'.this.kind = "button"
        THEN /\ method_last'.called
             /\ clip_last'.op = "getDepth" /\ clip_last'.ret = "number"
             /\ UNCHANGED <<children, drag_object, fill_style,
                            line_style_set, timeline>>
        ELSE SilentNoOp ]_vars

\* C23 witness: attachMovie was called on a button while a clip was being
\* dragged and the display list held a child; undefined came back.
C23_ButtonThisWitness ==
    /\ method_last.name = "attachMovie"
    /\ method_last.this = ThisButton
    /\ method_last.ret = "undefined"
    /\ drag_object.some
    /\ DOMAIN children # {}

(***************************************************************************)
(* The Date setters.                                                       *)
(***************************************************************************)
DateArgPool == {F64(3), NaN, Infinity, Undefined}
DateArgs == UNION {[1..n -> DateArgPool] : n \in 0..MaxDateArgs}
TimeArgPool == {F64(0), F64(-1), NaN}
OptionPool == {Missing, Given(F64(3)), Given(NaN)}

NextDate ==
    \/ \E args \in DateArgs : set_date(args) /\ UNCHANGED notDateVars
    \/ \E args \in DateArgs : set_month(args) /\ UNCHANGED notDateVars
    \/ \E args \in DateArgs : set_full_year(args) /\ UNCHANGED notDateVars
    \/ \E t \in TimeArgPool : set_time(<<t>>) /\ UNCHANGED notDateVars
    \/ \E options \in [1..3 -> OptionPool] :
           adjust(options) /\ UNCHANGED notDateVars

SpecDate == Init /\ [][NextDate]_vars

\* The adjustment a chain ends with
FinalAdjustment == date_last.chain[Len(date_last.chain)].adj
\* The calls of the chain made before any argument was missing: the fields
\* the chain applies
Applied(i) == \A k \in 1..i : date_last.chain[k].given.some

\* C24: in a chain of field calls, once the argument of one call is missing
\* that field and the field of every later call end unspecified, whether
\* or not the later call has an argument, and ignore_next, once true, is
\* true after every later call; a setter whose first argument is missing
\* leaves a valid Date as it was
C24_MissingArgumentEndsChain ==
    /\ \A i \in DOMAIN date_last.chain : \A j \in DOMAIN date_last.chain :
           i <= j =>
             /\ ~date_last.chain[i].given.some =>
                  /\ date_last.chain[j].adj.ignore_next
                  /\ ~FinalAdjustment[date_last.chain[j].field].spec
             /\ date_last.chain[i].adj.ignore_next =>
                  date_last.chain[j].adj.ignore_next
    /\ (/\ date_last.setter \in {"setDate", "setMonth", "setFullYear"}
        /\ date_last.args = <<>>) => date_time = date_last.before

\* C24 witness: a chain whose first argument is missing and whose second is
\* present has left the second field unspecified
C24_LaterArgumentIgnoredWitness ==
    /\ date_last.setter = "adjust"
    /\ ~date_last.chain[1].given.some
    /\ date_last.chain[2].given = Given(F64(3))
    /\ ~FinalAdjustment.month.spec
    /\ FinalAdjustment.ignore_next

\* C25: a setter given NaN or an infinity for a field its chain applies
\* leaves the Date invalid and returns NaN, whatever its other arguments
C25_NonFiniteInvalidates ==
    (/\ date_last.setter \in {"setDate", "setMonth", "setFullYear"}
     /\ \E i \in DOMAIN date_last.chain :
            /\ Applied(i)
            /\ ~is_finite(coerce_to_number(date_last.chain[i].given.value)))
    => (~date_time.some /\ date_last.ret = NaN)

\* C25 witness: setMonth(3, Infinity) on a valid Date has left it invalid
C25_InfiniteDayWitness ==
    /\ date_last.setter = "setMonth"
    /\ date_last.args = <<F64(3), Infinity>>
    /\ date_last.before.some
    /\ ~date_time.some
    /\ date_last.ret = NaN

\* setMonth(undefined, 3) was called on a valid Date
SetMonthUndefined3 ==
    /\ date_last.setter = "setMonth"
    /\ date_last.args = <<Undefined, F64(3)>>
    /\ date_last.before.some

\* C26 as stated: setMonth(undefined, 3) on a valid Date leaves it invalid
\* and returns NaN, the month call having set ignore_next and the day
\* argument having been ignored
C26_UndefinedMonthSetsIgnoreNext ==
    SetMonthUndefined3 =>
        /\ ~date_time.some /\ date_last.ret = NaN
        /\ date_last.chain[1].adj.ignore_next
        /\ ~FinalAdjustment.day.spec

\* C26 amended: setMonth(undefined, 3) on a valid Date leaves it invalid
\* and returns NaN, the month having been recorded as NaN; ignore_next is
\* not set and the day 3 is recorded
C26_UndefinedMonthIsNaN ==
    SetMonthUndefined3 =>
        /\ ~date_time.some /\ date_last.ret = NaN
        /\ FinalAdjustment.month = Specified(NaN)
        /\ ~FinalAdjustment.ignore_next
        /\ FinalAdjustment.day = Specified(F64(3))

\* C26 witness: the call has been made on the Date of 15 June 2024
C26_SetMonthUndefinedWitness ==
    /\ SetMonthUndefined3
    /\ date_last.before.v.year = 2024 /\ date_last.before.v.month0 = 5
    /\ date_last.before.v.day = 15
    /\ ~date_time.some

(***************************************************************************)
(* The ID map of an XML document.                                          *)
(***************************************************************************)
IdNames == {"a", "b"}
IdValues == {Number(1), Number(2)}

NextIdmap ==
    \/ \E xml_doc \in SUBSET IdNames :
           from_xml_document(xml_doc) /\ UNCHANGED notIdmapVars
    \/ \E name \in IdNames, value \in IdValues :
           idmap_set(name, value) /\ UNCHANGED notIdmapVars
    \/ \E name \in IdNames : get_local(name) /\ UNCHANGED notIdmapVars
    \/ \E name \in IdNames : has_own_property(name) /\ UNCHANGED notIdmapVars
    \/ get_keys /\ UNCHANGED notIdmapVars

SpecIdmap == Init /\ [][NextIdmap]_vars

\* The names a sequence of keys lists
KeyNames(keys) == {keys[i] : i \in DOMAIN keys}

\* C27: get_local(n) is the node of id n when the document has one, and the
\* base's value otherwise; has_own_property(n) is true for every node id;
\* get_keys lists the keys of the base and the node ids, each name once
C27_IdMapOverridesBase ==
    /\ idmap_last.op = "get_local" =>
           idmap_last.ret =
               IF idmap_last.name \in idmap.document
               THEN NodeObject(idmap_last.name)
               ELSE ScriptObject_get_local(idmap.base, idmap_last.name)
    /\ (/\ idmap_last.op = "has_own_property"
        /\ idmap_last.name \in idmap.document) => idmap_last.ret = Bool(TRUE)
    /\ idmap_last.op = "get_keys" =>
           /\ KeyNames(idmap_last.keys) =
                  KeyNames(ScriptObject_get_keys(idmap.base))
                      \cup idmap.document
           /\ \A i, j \in DOMAIN idmap_last.keys :
                  i # j => idmap_last.keys[i] # idmap_last.keys[j]

\* C27 without the count: get_local and has_own_property as above, and
\* get_keys lists the keys of the base and the node ids and no other name
C27_IdMapOverridesBaseKeysAsSet ==
    /\ idmap_last.op = "get_local" =>
           idmap_last.ret =
               IF idmap_last.name \in idmap.document
               THEN NodeObject(idmap_last.name)
               ELSE ScriptObject_get_local(idmap.base, idmap_last.name)
    /\ (/\ idmap_last.op = "has_own_property"
        /\ idmap_last.name \in idmap.document) => idmap_last.ret = Bool(TRUE)
    /\ idmap_last.op = "get_keys" =>
           KeyNames(idmap_last.keys) =
               KeyNames(ScriptObject_get_keys(idmap.base))
                   \cup idmap.document

\* The failing case of C27: get_keys on an ID map whose base holds a
\* property named as a node id lists the name twice
C27_KeyListedTwice ==
    /\ idmap_last.op = "get_keys"
    /\ idmap.document = {"a"}
    /\ idmap_last.keys = <<"a", "a">>

(***************************************************************************)
(* ContextMenuItem.                                                        *)
(***************************************************************************)
Flags == {Bool(TRUE), Bool(FALSE)}
\* The arguments of the constructor: caption, callback, separatorBefore,
\* enabled, visible, any number of them from the left
ItemArgs ==
    {args \in UNION {[1..n -> Flags \cup {String("x"), Undefined}] :
                        n \in 0..5} :
        /\ Len(args) > 0 => args[1] = String("x")
        /\ Len(args) > 1 => args[2] = Undefined
        /\ \A i \in 3..Len(args) : args[i] \in Flags}

NextMenu ==
    \/ \E args \in ItemArgs : new_item(args) /\ UNCHANGED notMenuVars
    \/ \E name \in {"separatorBefore", "enabled", "visible"} :
           \E value \in Flags :
               item_set(name, value) /\ UNCHANGED notMenuVars
    \/ item_set("caption", String("y")) /\ UNCHANGED notMenuVars
    \/ item_set("separator_before", Bool(TRUE)) /\ UNCHANGED notMenuVars
    \/ item_copy /\ UNCHANGED notMenuVars

SpecMenu == Init /\ [][NextMenu]_vars

\* C28 as stated: the copy's caption, enabled and visible are the
\* original's, and its separatorBefore is false whatever the original's
C28_CopySeparatorBeforeFalse ==
    menu_last.op = "copy" =>
        /\ menu_last.item.caption = menu_item.caption
        /\ menu_last.item.enabled = menu_item.enabled
        /\ menu_last.item.visible = menu_item.visible
        /\ menu_last.item.separatorBefore = Bool(FALSE)

\* C28 amended: the copy's caption, enabled and visible are the original's,
\* and its separatorBefore is what the original's property
\* `separator_before` holds as a boolean: false on an item that has no
\* such property, whatever its separatorBefore
C28_CopyReadsSeparatorUnderscore ==
    menu_last.op = "copy" =>
        /\ menu_last.item.caption = menu_item.caption
        /\ menu_last.item.enabled = menu_item.enabled
        /\ menu_last.item.visible = menu_item.visible
        /\ menu_last.item.separatorBefore =
               Bool(as_bool(menu_item.separator_before))
        /\ menu_item.separator_before = Undefined =>
               menu_last.item.separatorBefore = Bool(FALSE)

\* C28 witness: the copy of an item whose separatorBefore is true, and
\* which has no property separator_before, has separatorBefore false
C28_SeparatorLostWitness ==
    /\ menu_last.op = "copy"
    /\ menu_item.separatorBefore = Bool(TRUE)
    /\ menu_item.separator_before = Undefined
    /\ menu_item.enabled = Bool(FALSE)
    /\ menu_last.item.enabled = Bool(FALSE)
    /\ menu_last.item.separatorBefore = Bool(FALSE)

(***************************************************************************)
(* The reader of AVM1 actions.                                             *)
(***************************************************************************)
\* End, the lengths 2 and 3 (and the frame numbers), Play, GotoFrame and
\* 0x8F, which is no opcode
StreamBytes == {0, 2, 3, 6, 129, 143}
Streams == UNION {[1..n -> StreamBytes] : n \in 1..MaxStreamLen}

NextRead ==
    \/ /\ read_last = NoRead
       /\ \E bytes \in Streams : Reader_new(bytes) /\ UNCHANGED notReadVars
    \/ call_read_action /\ UNCHANGED notReadVars
    \/ call_read_action_list /\ UNCHANGED notReadVars

SpecRead == Init /\ [][NextRead]_vars

\* The first byte after the action that begins at `start`: the byte after
\* the opcode below 0x80, the byte after the length and the L operand
\* bytes from 0x80 on
ActionEnd(bytes, start) ==
    IF bytes[start + 1] < 128 THEN start + 1
    ELSE start + 3 + bytes[start + 2] + 256 * bytes[start + 3]

\* C29: when read_action returns an action the reader is at the first byte
\* after the operand block of the action, and read_action_list has read
\* each action from the byte after the operand block of the one before
C29_ReaderAfterOperandBlock ==
    /\ (/\ read_last.op = "read_action"
        /\ read_last.res.ok
        /\ read_last.res.v # NoAction)
       => reader.pos = ActionEnd(reader.bytes, read_last.start)
    /\ (read_last.op = "read_action_list" /\ read_last.res.ok)
       => \A i \in DOMAIN read_last.res.v :
              read_last.res.v[i].start =
                  IF i = 1 THEN read_last.start
                  ELSE ActionEnd(reader.bytes, read_last.res.v[i - 1].start)

\* The failing case of C29: GotoFrame with an operand block of 3 bytes
\* has been read and the reader is at the third byte of the block
C29_GotoFrameLongBlock ==
    /\ read_last.op = "read_action"
    /\ read_last.res.ok
    /\ read_last.res.v.name = "GotoFrame"
    /\ SubSeq(reader.bytes, 1, 3) = <<129, 3, 0>>
    /\ read_last.start = 0
    /\ Len(reader.bytes) = 6
    /\ reader.pos = 5

(***************************************************************************)
(* The iterator over the children of an XML node.                          *)
(***************************************************************************)
NextIter ==
    \/ \E n \in 0..MaxNodeChildren : children_of(n) /\ UNCHANGED notIterVars
    \/ next /\ UNCHANGED notIterVars
    \/ next_back /\ UNCHANGED notIterVars

SpecIter == Init /\ [][NextIter]_vars

\* The children an iterator has yielded, from either end
Yielded == iter_last.front \o iter_last.back

\* The state of C30: whatever the interleaving of the calls, next() has
\* yielded the children in document order from the first, next_back() in
\* reverse order from the last, no child twice; and a call returns None
\* only when every child has been yielded
C30_EachChildOnce ==
    LET n == Len(child_iter.children)
    IN /\ \A i \in DOMAIN iter_last.front :
              iter_last.front[i] = child_iter.children[i]
       /\ \A i \in DOMAIN iter_last.back :
              iter_last.back[i] = child_iter.children[n + 1 - i]
       /\ \A i, j \in DOMAIN Yielded : i # j => Yielded[i] # Yielded[j]
       /\ iter_last.op \in {"next", "next_back"} =>
              /\ ~iter_last.ret.some =>
                     /\ Len(Yielded) = n
                     /\ child_iter.index = child_iter.back_index
              /\ iter_last.ret.some =>
                     iter_last.ret.v =
                         IF iter_last.op = "next"
                         THEN iter_last.front[Len(iter_last.front)]
                         ELSE iter_last.back[Len(iter_last.back)]

\* The step of C30: once the ends have met, next() and next_back() return
\* None and yield nothing; until then each of them yields a child
C30_NoneAfterEndsMeet ==
    [][iter_last'.op \in {"next", "next_back"} =>
         IF child_iter.index = child_iter.back_index
         THEN ~iter_last'.ret.some /\ child_iter' = child_iter
         ELSE /\ iter_last'.ret.some
              /\ Len(iter_last'.front) + Len(iter_last'.back)
                     = Len(iter_last.front) + Len(iter_last.back) + 1]_vars

\* C30: any interleaving of next() and next_back() yields every child
\* once, next() in document order from the front and next_back() in
\* reverse order from the back, and once the two ends have met both
\* return None
C30_DoubleEndedChildren == []C30_EachChildOnce /\ C30_NoneAfterEndsMeet

\* C30 witness: the calls of double_ended_children on five children, next,
\* next_back, next, next_back, next, then a next_back that returned None
C30_FiveChildrenWitness ==
    /\ Len(child_iter.children) = 5
    /\ iter_last.front = <<1, 2, 3>>
    /\ iter_last.back = <<5, 4>>
    /\ iter_last.op = "next_back"
    /\ ~iter_last.ret.some

(***************************************************************************)
(* The locals of an activation as form values.                             *)
(***************************************************************************)
LocalNames == {"value1", "value2"}
LocalValues == {String("string"), Number(2), Number(7), Bool(TRUE)}
UrlArgs ==
    {<<>>, <<String("u")>>, <<String("FSCommand:quit")>>,
     <<String("u"), String("_self"), String("GET")>>,
     <<String("u"), String("_self"), String("POST")>>,
     <<String("u"), String("_self"), String("PUT")>>}

NextForm ==
    \/ \E name \in LocalNames, value \in LocalValues :
           locals_set(name, value) /\ UNCHANGED notFormVars
    \/ call_locals_into_form_values /\ UNCHANGED notFormVars
    \/ \E args \in UrlArgs : get_url(args) /\ UNCHANGED notFormVars

SpecForm == Init /\ [][NextForm]_vars

\* The text a value is sent as: a string as it is, a number as its numeral
FormText(value) ==
    CASE value = String("string") -> "string"
      [] value = Number(2) -> "2"
      [] value = Number(7) -> "7"
      [] value = Bool(TRUE) -> "true"

\* C31: the map locals_into_form_values returns has one entry for each
\* local of the activation and no other, under the name of the local, and
\* the entry is the value of the local as a string: a string as it is,
\* the number 2.0 as "2"; getURL with GET or POST sends that map
C31_OneEntryPerLocal ==
    (\/ form_last.op = "locals_into_form_values"
     \/ form_last.op = "getURL" /\ form_last.method # "")
    => /\ DOMAIN form_last.vars = DOMAIN locals
       /\ \A k \in DOMAIN locals : form_last.vars[k] = FormText(locals[k])

\* C31 witness: the locals of the test, value1 = "string" and
\* value2 = 2.0, have given the two entries "string" and "2"
C31_TwoLocalsWitness ==
    /\ form_last.op = "locals_into_form_values"
    /\ DOMAIN locals = {"value1", "value2"}
    /\ locals["value1"] = String("string") /\ locals["value2"] = Number(2)
    /\ form_last.vars["value1"] = "string" /\ form_last.vars["value2"] = "2"

(***************************************************************************)
(* The methods of MovieClip called by the scripts of a frame.              *)
(***************************************************************************)
\* The frames a script asks for: none is below 0, some are past the end
ApiFrames == 0..(MaxFrames + 2)
\* The calls of one frame's scripts fit the queues
ApiQueueRoom ==
    \A c \in {"root", "1"} :
        Len(timeline.clips[c].goto_queue) < MaxQueue + 1
\* A script is running: the frame has run and run_post_frame has not
ScriptRuns == goto_pc.phase = "ran"

NextMovie ==
    \/ \E root_total \in 1..MaxFrames, child_total \in {0, 2} :
            load_movie(root_total, child_total) /\ UNCHANGED notTimeVars
    \/ tick_run_frame /\ UNCHANGED notTimeVars
    \/ \E c \in TimeReceivers, frame \in ApiFrames, halt \in BOOLEAN :
            /\ ScriptRuns /\ ApiQueueRoom
            /\ clip_goto_frame(c, frame, halt)
            /\ UNCHANGED notTimeVars
    \/ \E c \in TimeReceivers :
            ScriptRuns /\ ApiQueueRoom /\ next_frame(c)
            /\ UNCHANGED notTimeVars
    \/ \E c \in TimeReceivers :
            ScriptRuns /\ ApiQueueRoom /\ prev_frame(c)
            /\ UNCHANGED notTimeVars
    \/ \E c \in TimeReceivers : ScriptRuns /\ play(c) /\ UNCHANGED notTimeVars
    \/ \E c \in TimeReceivers : ScriptRuns /\ stop(c) /\ UNCHANGED notTimeVars
    \/ run_post_frame /\ UNCHANGED notTimeVars
    \/ run_goto_queue_select /\ UNCHANGED notTimeVars
    \/ run_goto_queue_skip /\ UNCHANGED notTimeVars
    \/ run_goto_queue_land /\ UNCHANGED notTimeVars
    \/ run_goto_queue_clear /\ UNCHANGED notTimeVars

SpecMovie == Init /\ [][NextMovie]_vars

\* The queue of gotos of the clip run_goto_queue is working on, and the
\* entry queued last
QueueInHand == timeline.clips[goto_pc.clip].goto_queue
LastQueued == QueueInHand[Len(QueueInHand)]
\* run_goto_queue has processed every entry of a queue that is not empty
QueueProcessed ==
    /\ goto_pc.phase = "select"
    /\ Len(QueueInHand) > 0
    /\ goto_pc.i = Len(QueueInHand)

\* C33: once run_post_frame has processed a queue of gotos whose last
\* entry is a frame f of the clip, 1 <= f <= total_frames, the clip is on
\* frame f, also when it was on f before; the entries are taken in the
\* order they were queued
C33_ClipOnLastQueuedFrame ==
    /\ (/\ QueueProcessed
        /\ 1 <= LastQueued.frame
        /\ LastQueued.frame <= total_frames(timeline, goto_pc.clip))
       => timeline.clips[goto_pc.clip].current_frame = LastQueued.frame
    /\ goto_pc.phase = "advance"
       => goto_pc.frame = QueueInHand[goto_pc.i + 1].frame

\* C33 for a last goto to another frame than the one the clip was on
C33_ClipOnLastQueuedOtherFrame ==
    /\ (/\ QueueProcessed
        /\ 1 <= LastQueued.frame
        /\ LastQueued.frame <= total_frames(timeline, goto_pc.clip)
        /\ timeline.log.from # timeline.log.target)
       => timeline.clips[goto_pc.clip].current_frame = LastQueued.frame
    /\ goto_pc.phase = "advance"
       => goto_pc.frame = QueueInHand[goto_pc.i + 1].frame

\* The failing case of C33: a clip of two frames on frame 1 has processed
\* the goto to frame 1 and is on frame 2
C33_GotoCurrentFrameAdvances ==
    /\ QueueProcessed
    /\ goto_pc.clip = "root"
    /\ timeline.movie.root_total = 2
    /\ QueueInHand = <<[frame |-> 1, direct |-> TRUE, n |-> 1]>>
    /\ timeline.log.from = 1
    /\ timeline.clips["root"].current_frame = 2

\* The step is a call of the method op by a script
ApiStep(op) ==
    /\ goto_pc.phase = "ran"
    /\ goto_pc'.phase \in {"ran", "panic"}
    /\ time_last'.op = op
\* The clip the call was made on, before and after the call
Callee == timeline.clips[time_last'.receiver]
CalleeAfter == timeline'.clips[time_last'.receiver]
\* The step is run_frame of the root
TickStep == goto_pc.phase = "idle" /\ goto_pc'.phase = "ran"

\* C34: the frame of a clip is never past total_frames, and once the root
\* has run its first frame its current_frame is at least 1 after every
\* call (within run_goto_queue a rewind passes through 0); run_frame on
\* the last frame wraps to frame 1 with the children cleared, so that
\* only the object frame 1 places is on the display list; next_frame on
\* the last frame and prev_frame on frame 1 queue nothing; run_frame of a
\* stopped clip changes nothing
C34_FrameWithinTimeline ==
    /\ [](\A c \in {"root", "1"} :
              timeline.clips[c].current_frame <= total_frames(timeline, c))
    /\ [][/\ timeline.clips["root"].current_frame >= 1
             => \/ timeline'.clips["root"].current_frame >= 1
                \/ goto_pc'.phase = "advance"
          /\ (/\ goto_pc.phase = "advance" /\ goto_pc.clip = "root"
              /\ goto_pc'.phase # "advance")
             => timeline'.clips["root"].current_frame >= 1
          /\ (/\ TickStep
              /\ timeline.clips["root"].is_playing
              /\ timeline.clips["root"].current_frame
                     = timeline.movie.root_total)
             => /\ timeline'.clips["root"].current_frame = 1
                /\ timeline'.display = {1}
          /\ (TickStep /\ ~timeline.clips["root"].is_playing)
             => /\ timeline'.clips = timeline.clips
                /\ timeline'.display = timeline.display
          /\ (/\ ApiStep("next_frame")
              /\ Callee.current_frame
                     = total_frames(timeline, time_last'.receiver))
             => /\ CalleeAfter.goto_queue = Callee.goto_queue
                /\ goto_pc' = goto_pc
          /\ (ApiStep("prev_frame") /\ Callee.current_frame = 1)
             => CalleeAfter.goto_queue = Callee.goto_queue ]_vars

(***************************************************************************)
(* SpecLongMovie: a movie of one frame whose sprite has as many frames as  *)
(* a FrameNumber counts.  The scripts stop and restart the root and send   *)
(* the sprite to its first frames; the script of the sprite's frame 1 may  *)
(* send it to its last frame once the root is stopped, and the script of   *)
(* the last frame may call nextFrame.  The processing of one queued goto   *)
(* is taken as one step.                                                   *)
(***************************************************************************)
\* `while self.current_frame + 1 < frame { self.run_frame_internal(context,
\* true) }` of run_goto_queue, for up to 2^doublings turns
RECURSIVE skip_while(_, _, _, _)
skip_while(t, c, frame, doublings) ==
    IF doublings = 0
    THEN IF t.clips[c].current_frame + 1 < frame
         THEN run_frame_internal(t, c, TRUE)
         ELSE t
    ELSE LET half == skip_while(t, c, frame, doublings - 1)
         IN  IF half.clips[c].current_frame + 1 < frame
             THEN skip_while(half, c, frame, doublings - 1)
             ELSE half

\* run_goto_queue, one turn of the loop over the queue, for a goto whose
\* while loop ends
run_goto_queue_turn ==
    LET c == goto_pc.clip
        clip == timeline.clips[c]
        queued == clip.goto_queue[goto_pc.i + 1]
        rewinds == ~(queued.frame >= clip.current_frame)
        log == [NoLog EXCEPT !.op = "goto", !.clip = c,
                             !.from = clip.current_frame,
                             !.target = queued.frame,
                             !.direct = queued.direct, !.n = queued.n,
                             !.cleared = rewinds]
        t0 == IF rewinds
              THEN [timeline EXCEPT
                      !.log = log,
                      !.display = IF c = "root" THEN {} ELSE @,
                      !.clips[c].current_frame = 0]
              ELSE [timeline EXCEPT !.log = log]
        t1 == skip_while(t0, c, queued.frame, 16)
        t2 == run_frame_internal(t1, c, FALSE)
    IN  /\ goto_pc.phase = "select"
        /\ goto_pc.i < Len(clip.goto_queue)
        /\ ~(t1.clips[c].current_frame + 1 < queued.frame)
        /\ timeline' = [t2 EXCEPT !.log.done = TRUE]
        /\ goto_pc' = [goto_pc EXCEPT !.i = @ + 1]
        /\ UNCHANGED time_last

\* The first frames
FirstFrames == {1, 2}
\* The sprite is on its last frame
OnLastFrame(c) ==
    timeline.clips[c].current_frame = total_frames(timeline, c)

NextLongMovie ==
    \/ load_movie(1, U16Max) /\ UNCHANGED notTimeVars
    \/ tick_run_frame /\ UNCHANGED notTimeVars
    \/ ScriptRuns /\ stop("root") /\ UNCHANGED notTimeVars
    \/ ScriptRuns /\ play("root") /\ UNCHANGED notTimeVars
    \/ \E frame \in FirstFrames, halt \in BOOLEAN :
            /\ ScriptRuns
            /\ timeline.clips["1"].goto_queue = <<>>
            /\ clip_goto_frame("1", frame, halt)
            /\ UNCHANGED notTimeVars
    \/ /\ ScriptRuns
       /\ timeline.clips["1"].goto_queue = <<>>
       /\ timeline.clips["1"].current_frame = 1
       /\ ~timeline.clips["root"].is_playing
       /\ clip_goto_frame("1", U16Max, TRUE)
       /\ UNCHANGED notTimeVars
    \/ /\ ScriptRuns
       /\ timeline.clips["1"].goto_queue = <<>>
       /\ OnLastFrame("1")
       /\ next_frame("1")
       /\ UNCHANGED notTimeVars
    \/ run_post_frame /\ UNCHANGED notTimeVars
    \/ run_goto_queue_turn /\ UNCHANGED notTimeVars
    \/ run_goto_queue_clear /\ UNCHANGED notTimeVars

SpecLongMovie == Init /\ [][NextLongMovie]_vars

\* The failing case of C34: next_frame is called on the sprite on its last
\* frame, the last frame a FrameNumber can number
C34_NextFrameOnLastFrameNumber ==
    /\ goto_pc.phase = "ran"
    /\ timeline.movie.child_total = U16Max
    /\ timeline.clips["1"].current_frame = U16Max
    /\ timeline.clips["1"].goto_queue = <<>>
    /\ ENABLED (next_frame("1") /\ UNCHANGED notTimeVars)

\* C35: attachMovie called with fewer than 3 arguments, and
\* createEmptyMovieClip and duplicateMovieClip called with fewer than 2,
\* return undefined (after the report 'Too few parameters', with no child
\* added)
C35_TooFewParametersReturnUndefined ==
    \/ clip_last.op = "attachMovie" /\ clip_last.nargs < 3
    \/ /\ clip_last.op \in {"createEmptyMovieClip", "duplicateMovieClip"}
       /\ clip_last.nargs < 2
    => clip_last.ret = "undefined"

(***************************************************************************)
(* SpecQueue: the gotos a script queues on the root of a movie of several  *)
(* frames without sprite, and run_post_frame, whose code runs on once it   *)
(* is entered.                                                             *)
(***************************************************************************)
\* A step of run_goto_queue
run_goto_queue ==
    \/ run_goto_queue_select
    \/ run_goto_queue_skip
    \/ run_goto_queue_land
    \/ run_goto_queue_clear

NextQueue ==
    \/ \E root_total \in 2..MaxFrames :
            load_movie(root_total, 0) /\ UNCHANGED notTimeVars
    \/ tick_run_frame /\ UNCHANGED notTimeVars
    \/ \E frame \in ApiFrames, halt \in BOOLEAN :
            /\ ScriptRuns /\ ApiQueueRoom
            /\ clip_goto_frame("root", frame, halt)
            /\ UNCHANGED notTimeVars
    \/ run_post_frame /\ UNCHANGED notTimeVars
    \/ run_goto_queue_select /\ UNCHANGED notTimeVars
    \/ run_goto_queue_skip /\ UNCHANGED notTimeVars
    \/ run_goto_queue_land /\ UNCHANGED notTimeVars
    \/ run_goto_queue_clear /\ UNCHANGED notTimeVars

SpecQueue ==
    Init /\ [][NextQueue]_vars /\ WF_vars(run_goto_queue /\ UNCHANGED notTimeVars)

\* C32: run_goto_queue terminates, whatever frames are queued (frames past
\* total_frames included) on a clip of total_frames >= 1, and the queue is
\* empty when it returns
C32_RunGotoQueueTerminates ==
    (goto_pc.phase = "select" /\ goto_pc.clip = "root")
        ~> (goto_pc.phase = "idle"
            /\ timeline.clips["root"].goto_queue = <<>>)

\* The failing case of C32: on a clip of 3 frames run_goto_queue is in the
\* loop `while self.current_frame + 1 < frame` for the queued frame 5
C32_GotoPastEndLoops ==
    /\ goto_pc.phase = "advance"
    /\ goto_pc.frame = 5
    /\ timeline.movie.root_total = 3
    /\ timeline.clips["root"].current_frame = 3
    /\ timeline.log.passed = {1, 2, 3}

(***************************************************************************)
(* SpecSlot: a method called on an object with one argument, an object or  *)
(* a number, whose body reads and writes slots.                            *)
(***************************************************************************)
SlotArguments == {ObjectValue(Dyn), Number(1)}

NextSlot ==
    \/ \E argument \in SlotArguments :
            from_method(TRUE, 0, 1, MaxDeclaredStack, 0, 1, Sealed,
                        <<argument>>)
            /\ UNCHANGED <<clipVars, hostVars>>
    \/ run_actions(TRUE) /\ UNCHANGED <<clipVars, hostVars>>
    \/ \E register_index \in {0, 1} :
            op_get_local(register_index) /\ UNCHANGED <<clipVars, hostVars>>
    \/ op_push_null /\ UNCHANGED <<clipVars, hostVars>>
    \/ op_pop /\ UNCHANGED <<clipVars, hostVars>>
    \/ \E index \in {1, 2} : op_get_slot(index) /\ UNCHANGED notSlotVars
    \/ \E index \in {1, 2} : op_set_slot(index) /\ UNCHANGED notSlotVars
    \/ op_return_void /\ UNCHANGED <<clipVars, hostVars>>

SpecSlot == Init /\ [][NextSlot]_vars

\* The stack ends in [..., object, value], the operands of setproperty
ObjectBelowValue ==
    /\ Len(stack) >= 2
    /\ is_object(stack[Len(stack) - 1])

\* C37: setslot executed on a stack ending in [..., object, value], the
\* value on top, stores the value into the slot of the object and pops
\* both, as setproperty and initproperty take their operands
C37_SetSlotOperandOrder ==
    [][(last'.op = "setslot" /\ ObjectBelowValue)
       => /\ \E index \in {1, 2} :
                 slots' = [slots EXCEPT ![stack[Len(stack) - 1].v][index] =
                                            stack[Len(stack)]]
          /\ stack' = SubSeq(stack, 1, Len(stack) - 2)]_vars

\* The failing case of C37: on the stack [this, null] setslot is about to
\* be executed
C37_ObjectBelowNull ==
    /\ Executing
    /\ stack = <<ObjectValue(Sealed), Null>>

\* What setslot does: executed on a stack ending in [..., value, object],
\* the object on top, it stores the value into the slot of the object
C37_SetSlotObjectOnTop ==
    [][(/\ last'.op = "setslot" /\ last'.res = "Continue"
        /\ Len(stack) >= 2)
       => /\ slots' = [slots EXCEPT ![stack[Len(stack)].v][last'.note] =
                                        stack[Len(stack) - 1]]
          /\ stack' = SubSeq(stack, 1, Len(stack) - 2)]_vars

\* The call made last was made on an invalid Date
CalledOnInvalidDate == date_last.setter # "" /\ ~date_last.before.some

C38_SetTimeRevivesWitness ==
    /\ CalledOnInvalidDate
    /\ date_last.setter = "setTime"
    /\ date_last.args = <<F64(0)>>
    /\ date_time.some

(***************************************************************************)
(* SpecButton: a button of up to MaxButtonActions actions, placed on a     *)
(* clip or not, and the events it handles.                                 *)
(***************************************************************************)
MaxButtonActions == 2   \* actions of the tag of a button
MaxActionQueue == 3     \* actions queued when an event is handled
\* The characters of the states of a button: the last is not in the library
ButtonRecords ==
    {[id |-> 1, depth |-> 1, states |-> {"Up", "Over"}],
     [id |-> 2, depth |-> 2, states |-> {"Down"}],
     [id |-> 3, depth |-> 3, states |-> {"Up"}]}
SwfButtonAction(action_data, conditions, key_code) ==
    [action_data |-> action_data, conditions |-> conditions,
     key_code |-> key_code]
SwfButtonActions ==
    {SwfButtonAction(1, <<"IdleToOverUp">>, NoneValue),
     SwfButtonAction(2, <<"OverDownToOverUp", "KeyPress">>, SomeValue(13)),
     SwfButtonAction(3, <<"IdleToOverUp", "OverUpToIdle">>, NoneValue),
     SwfButtonAction(4, <<"OverUpToOverDown", "OverDownToOverUp">>,
                     NoneValue),
     SwfButtonAction(5, <<"KeyPress">>, SomeValue(13))}
SwfButtons ==
    {[records |-> ButtonRecords, actions |-> actions] :
        actions \in UNION {[1..n -> SwfButtonActions] :
                              n \in 0..MaxButtonActions}}
ButtonEvents ==
    {ButtonEvent(kind, 0) : kind \in {"RollOut", "RollOver", "Press",
                                      "Release"}}
    \cup {ButtonEvent("KeyPress", key) : key \in {13, 32}}

NextButton ==
    \/ /\ button_last.event.kind = ""
       /\ \E swf_button \in SwfButtons : construct_button(swf_button)
       /\ UNCHANGED notButtonVars
    \/ Button_set_parent("clip") /\ UNCHANGED notButtonVars
    \/ \E event \in ButtonEvents :
            /\ button_last.event.kind # ""
            /\ Len(button.action_queue) < MaxActionQueue
            /\ handle_button_event(event)
            /\ UNCHANGED notButtonVars

SpecButton == Init /\ [][NextButton]_vars

\* The event handled last, the button before it, and the actions it queued
ButtonBefore == button_last.before
EventHandled ==
    button_last.event.kind
        \in {"RollOut", "RollOver", "Press", "Release", "KeyPress"}
QueuedByEvent ==
    SubSeq(button.action_queue, Len(ButtonBefore.action_queue) + 1,
           Len(button.action_queue))
\* The condition of a change of state, "" when it has none
ConditionOf(from, to) ==
    CASE from = "Up" /\ to = "Over" -> "IdleToOverUp"
      [] from = "Over" /\ to = "Up" -> "OverUpToIdle"
      [] from = "Over" /\ to = "Down" -> "OverUpToOverDown"
      [] from = "Down" /\ to = "Over" -> "OverDownToOverUp"
      [] OTHER -> ""
\* The actions declared for the event handled last: those of the KeyPress
\* condition with the key of the event, or those of the condition of the
\* change of state (which carry no key code)
DeclaredForEvent ==
    SelectSeq(ButtonBefore.actions,
        LAMBDA action :
            IF button_last.event.kind = "KeyPress"
            THEN /\ action.condition = "KeyPress"
                 /\ action.key_code = SomeValue(button_last.event.key)
            ELSE /\ action.condition
                        = ConditionOf(ButtonBefore.state, button.state)
                 /\ action.key_code = NoneValue)

C36_NoParentWitness ==
    /\ EventHandled
    /\ button_last.event.kind = "RollOver"
    /\ ButtonBefore.state = "Up"
    /\ ~ButtonBefore.parent.some
    /\ \E i \in 1..Len(ButtonBefore.actions) :
           ButtonBefore.actions[i].condition = "IdleToOverUp"
    /\ button.action_queue = <<>>

(***************************************************************************)
(* SpecText: a text field and the calls that set its text, its format and  *)
(* its flags and that measure it.                                          *)
(***************************************************************************)
MaxTextLen == 3         \* characters of the text of a text field
TextChars == {"a", " ", "\n"}
Texts == UNION {[1..n -> TextChars] : n \in 0..MaxTextLen}

NextText ==
    \/ \E text \in Texts : set_text(text) /\ UNCHANGED notTextVars
    \/ \E tf \in {"default", "bold"} :
            set_new_text_format(tf) /\ UNCHANGED notTextVars
    \/ \E is_multiline \in BOOLEAN :
            set_multiline(is_multiline) /\ UNCHANGED notTextVars
    \/ \E is_word_wrap \in BOOLEAN :
            set_word_wrap(is_word_wrap) /\ UNCHANGED notTextVars
    \/ measure_text /\ UNCHANGED notTextVars

SpecText == Init /\ [][NextText]_vars

\* C39: every break point of line_breaks is strictly between 0 and the
\* length of the text, the break points are strictly increasing, and there
\* are none when the field is not multiline
C39_BreakPointsInsideText ==
    LET lbrk == line_breaks(edit_text)
    IN  /\ \A k \in 1..Len(lbrk) :
               0 < lbrk[k] /\ lbrk[k] < Len(edit_text.text)
        /\ \A k \in 1..(Len(lbrk) - 1) : lbrk[k] < lbrk[k + 1]
        /\ ~edit_text.is_multiline => lbrk = <<>>

\* The failing case of C39: the text "a\n" of a multiline field was
\* measured with the break point 2, the length of the text
C39_BreakPointAtEnd ==
    /\ edit_text.text = <<"a", "\n">>
    /\ edit_text.is_multiline
    /\ text_last.op = "measure_text"
    /\ text_last.lbrk = <<2>>

\* C39 but for the upper end: the break points are above 0 and at most the
\* length of the text, strictly increasing, and none when not multiline
C39_BreakPointsUpToEnd ==
    LET lbrk == line_breaks(edit_text)
    IN  /\ \A k \in 1..Len(lbrk) :
               0 < lbrk[k] /\ lbrk[k] <= Len(edit_text.text)
        /\ \A k \in 1..(Len(lbrk) - 1) : lbrk[k] < lbrk[k + 1]
        /\ ~edit_text.is_multiline => lbrk = <<>>

\* C40: whenever cached_break_points is present it is what line_breaks
\* computes from the text, the format and the flags of the field, and so is
\* what measure_text used
C40_CacheNeverStale ==
    /\ edit_text.cached_break_points.some
           => edit_text.cached_break_points.v = line_breaks(edit_text)
    /\ text_last.op = "measure_text"
           => text_last.lbrk = line_breaks(edit_text)

\* C40 witness: the multiline field of the text "a a" was measured and
\* holds the break point 2 in its cache
C40_CachedBreakPointWitness ==
    /\ edit_text.cached_break_points = SomeBreakPoints(<<2>>)
    /\ edit_text.text = <<"a", " ", "a">>
    /\ text_last.op = "measure_text"

====
